---- MODULE Spec2Model ----
(***************************************************************************)
(* A model of gnash's placement tags (server/swf/PlaceObject2Tag.cpp):     *)
(* the loader decodes a PLACEOBJECT / PLACEOBJECT2 / PLACEOBJECT3 tag from *)
(* a byte stream into a PlaceObject2Tag, adds it to the movie's execute    *)
(* list, and execute() later applies it to a sprite's display list.        *)
(*                                                                         *)
(* The stream, the matrix / cxform / action_buffer readers, the movie      *)
(* definition and the display list are collaborators whose code is not in  *)
(* the source tree; they are modelled from the design document (spec.md,   *)
(* sections 4.1 and 4.4).                                                  *)
(*                                                                         *)
(* Two more parts of gnash are modelled, each with a specification of its  *)
(* own: the calendar arithmetic of the Date class (server/asobj/Date.cpp,  *)
(* SpecDate) and the offscreen buffer and renderer set-up of the GTK-AGG   *)
(* glue (gui/gtk_glue_agg.cpp, SpecGlue).                                  *)
(***************************************************************************)
EXTENDS Integers, Sequences, FiniteSets, TLC

VARIABLES
    playlist,        \* movie_definition: execute tags added, not yet executed
    timelineDepths,  \* movie_definition: depths registered by addTimelineDepth
    dlist,           \* sprite_instance: the display list, ordered by depth
    nextId,          \* identity given to the next character instance
    last,            \* what the last step did (observation only)
    stream,          \* the tags of a file read in order, and how far it is
    date,            \* date_as_object: the Date object a script works on
    glue             \* GtkAggGlue: the members of the GTK-AGG glue object

vars == <<playlist, timelineDepths, dlist, nextId, last, stream, date, glue>>

(***************************************************************************)
(* Bounds of the model.                                                    *)
(***************************************************************************)
\* execute tags that may be pending (loaded, not yet executed)
MaxPlaylist == 1
\* tags in a file that is read from its first tag to its last
StreamLen == 3
\* character instances created in one run
MaxInstances == 3

(***************************************************************************)
(* character.h constants used by the tag.                                  *)
(***************************************************************************)
staticDepthOffset == -16384
noRatioValue == -1
noClipDepthValue == -1000000

Max(a, b) == IF a >= b THEN a ELSE b
Bit(v, i) == (v \div (2 ^ i)) % 2 = 1

(***************************************************************************)
(* The stream.  A cursor is the stream's state while one tag is read:      *)
(*   data  the bytes of the file from the tag's first byte on (the bytes   *)
(*         after the tag's end belong to the tags that follow),            *)
(*   end   the tag's end position, pos the read position,                  *)
(*   fail  TRUE once a read was refused (TruncatedInput was thrown),       *)
(*   val   the value of the last read,                                     *)
(*   hi    one more than the highest position a byte was read from.        *)
(***************************************************************************)
open_tag(in) ==
    [data |-> in.data, end |-> in.end, pos |-> 0, fail |-> FALSE,
     val |-> 0, hi |-> 0]

byte_at(c, p) == IF p < Len(c.data) THEN c.data[p + 1] ELSE 0

\* a read that does not look at the tag's end
read_u8_unchecked(c) ==
    IF c.fail THEN c
    ELSE [c EXCEPT !.val = byte_at(c, c.pos), !.pos = c.pos + 1,
                   !.hi = Max(c.hi, c.pos + 1)]

read_u8(c) ==
    IF c.fail THEN c
    ELSE IF c.pos >= c.end THEN [c EXCEPT !.fail = TRUE]
    ELSE [c EXCEPT !.val = byte_at(c, c.pos), !.pos = c.pos + 1,
                   !.hi = Max(c.hi, c.pos + 1)]

\* read_u16: the low byte, then the high byte
u16_join(lo, b) == IF b.fail THEN b ELSE [b EXCEPT !.val = lo + 256 * b.val]
u16_high(a) == u16_join(a.val, read_u8(a))
read_u16(c) == u16_high(read_u8(c))

\* A 32-bit unsigned value is kept as its two 16-bit halves, [lo, hi]:
\* the value is lo + 65536 * hi.
Word(lo, hi) == [lo |-> lo, hi |-> hi]
WordBit(w, i) == IF i < 16 THEN Bit(w.lo, i) ELSE Bit(w.hi, i - 16)
WordIsZero(w) == w.lo = 0 /\ w.hi = 0
\* w - 1 in 32-bit unsigned arithmetic
WordDec(w) ==
    IF w.lo > 0 THEN Word(w.lo - 1, w.hi)
    ELSE IF w.hi > 0 THEN Word(65535, w.hi - 1)
    ELSE Word(65535, 65535)
\* n < w and w < n, for a number n below 2^31
IntLessWord(n, w) == w.hi >= 32768 \/ n < w.lo + 65536 * w.hi
WordLessInt(w, n) == w.hi < 32768 /\ w.lo + 65536 * w.hi < n
\* w - n, for n <= w and n below 65536
WordMinusInt(w, n) ==
    IF w.lo >= n THEN Word(w.lo - n, w.hi)
    ELSE Word(w.lo + 65536 - n, w.hi - 1)

\* read_u32: the low half, then the high half
u32_join(lo, b) == IF b.fail THEN b ELSE [b EXCEPT !.val = Word(lo, b.val)]
u32_high(a) == u32_join(a.val, read_u16(a))
read_u32(c) == u32_high(read_u16(c))

\* (movie_version >= 6) ? in->read_u32() : in->read_u16()
u16_widen(a) == IF a.fail THEN a ELSE [a EXCEPT !.val = Word(a.val, 0)]
\* a flag word of 32 bits whatever the version
read_flag_word_wide(c, movie_version) == read_u32(c)

read_flag_word(c, movie_version) ==
    IF movie_version >= 6 THEN read_u32(c) ELSE u16_widen(read_u16(c))

\* the bit cursor is discarded; every bit field of the tag is a whole byte
align(c) == c

get_position(c) == c.pos
get_tag_end_position(c) == c.end

\* skip_bytes(n): val is 1 when the bytes were skipped and 0 when the
\* skip was refused because it would leave the tag
skip_bytes(c, w) ==
    IF c.fail THEN c
    ELSE IF IntLessWord(c.end - c.pos, w) THEN [c EXCEPT !.val = 0]
    ELSE [c EXCEPT !.val = 1, !.pos = c.pos + w.lo + 65536 * w.hi]

\* read_string: the bytes up to the terminating zero
RECURSIVE read_string_from(_, _)
read_string_next(a, acc) ==
    IF a.fail THEN a
    ELSE IF a.val = 0 THEN [a EXCEPT !.val = acc]
    ELSE read_string_from(a, Append(acc, a.val))
read_string_from(c, acc) == read_string_next(read_u8(c), acc)
read_string(c) == read_string_from(c, <<>>)

\* matrix::read, cxform::read_rgb, cxform::read_rgba: one byte stands for
\* the encoded transform, its value for the transform read.
matrix_read(c) == read_u8(c)
cxform_read_rgb(c) == read_u8(c)
cxform_read_rgba(c) == read_u8(c)

\* filter_factory::read: a count byte, then one byte for each filter.
RECURSIVE read_n_bytes(_, _)
read_n_bytes(c, n) ==
    IF n = 0 \/ c.fail THEN c ELSE read_n_bytes(read_u8(c), n - 1)
filter_bodies(a) == IF a.fail THEN a ELSE read_n_bytes(a, a.val)
filter_factory_read(c) == filter_bodies(read_u8(c))

\* action_buffer::read: the actions are read up to and including the end
\* action (a zero byte); val is the position the buffer starts at, and the
\* buffer's size is the number of bytes read.
RECURSIVE action_read_from(_, _)
action_read_next(a, start) ==
    IF a.fail THEN a
    ELSE IF a.val = 0 THEN [a EXCEPT !.val = start]
    ELSE action_read_from(a, start)
action_read_from(c, start) == action_read_next(read_u8(c), start)
action_read(c) == action_read_from(c, c.pos)

(***************************************************************************)
(* PlaceObject2Tag: the decoded tag.  A decoding state s holds the tag     *)
(* being filled (t), the cursor (c) and the locals of the reading          *)
(* functions: the two flag bytes f and f2, and for the event loop the      *)
(* flag word, event_length, the key code ch, the action read (start,       *)
(* readlen) and brk, TRUE once the loop was left by break.                 *)
(* The remaining fields record what was done and change nothing of it:     *)
(* reads lists the fields read with the positions they were read from and  *)
(* to; log has one entry for each pass of the event loop, made of the      *)
(* pass's locals, of declared (event_length as read), after_len (the       *)
(* position after the length field) and of stage, the point the pass got   *)
(* to.                                                                     *)
(* A step does nothing once the cursor has failed: the exception has left  *)
(* the function.                                                           *)
(***************************************************************************)
\* the tag as its constructor leaves it
NewTag ==
    [m_tag_type |-> "NONE", m_character_id |-> 0, m_depth |-> 0,
     m_matrix |-> 0, m_has_matrix |-> FALSE,
     m_color_transform |-> 0, m_has_cxform |-> FALSE,
     m_ratio |-> noRatioValue, m_name |-> <<>>,
     m_clip_depth |-> noClipDepthValue,
     m_event_handlers |-> <<>>, all_event_flags |-> Word(0, 0),
     m_place_type |-> "PLACE"]

\* key::INVALID
keyINVALID == 0

NewState(in) ==
    [t |-> NewTag, c |-> open_tag(in), f |-> 0, f2 |-> 0,
     flags |-> Word(0, 0), event_length |-> Word(0, 0), ch |-> keyINVALID,
     start |-> 0, readlen |-> 0, brk |-> FALSE,
     declared |-> Word(0, 0), after_len |-> 0, stage |-> "none",
     log |-> <<>>, reads |-> <<>>]

\* the cursor after a read, and the value read stored in a member
got(s, c) == [s EXCEPT !.c = c]
put(s, member) == IF s.c.fail THEN s ELSE [s EXCEPT !.t[member] = s.c.val]
put_depth(s, member) ==
    IF s.c.fail THEN s
    ELSE [s EXCEPT !.t[member] = s.c.val + staticDepthOffset]
set(s, member, v) == IF s.c.fail THEN s ELSE [s EXCEPT !.t[member] = v]

\* the record of a read that took the state from s0 to s1
noted(s0, s1, what) ==
    IF s1.c.fail THEN s1
    ELSE [s1 EXCEPT !.reads = Append(@, [what |-> what, at |-> s0.c.pos,
                                          to |-> s1.c.pos])]

(* readPlaceObject *)
po_character_id(s) ==
    noted(s, put(got(s, read_u16(s.c)), "m_character_id"), "character_id")
po_depth(s) == noted(s, put_depth(got(s, read_u16(s.c)), "m_depth"), "depth")
po_matrix(s) == noted(s, put(got(s, matrix_read(s.c)), "m_matrix"), "matrix")
\* a color transform read whatever is left of the tag
po_cxform_always(s) ==
    IF s.c.fail THEN s
    ELSE noted(s, put(got(s, cxform_read_rgb(s.c)), "m_color_transform"),
               "cxform_rgb")

po_cxform(s) ==
    IF s.c.fail THEN s
    ELSE IF get_position(s.c) < get_tag_end_position(s.c)
         THEN noted(s, put(got(s, cxform_read_rgb(s.c)), "m_color_transform"),
                    "cxform_rgb")
    ELSE s

readPlaceObject(s) == po_cxform(po_matrix(po_depth(po_character_id(s))))

(* readPlaceActions *)
total_known_events == 19

s_code_bits ==
    <<"LOAD", "ENTER_FRAME", "UNLOAD", "MOUSE_MOVE", "MOUSE_DOWN",
      "MOUSE_UP", "KEY_DOWN", "KEY_UP", "DATA", "INITIALIZE", "PRESS",
      "RELEASE", "RELEASE_OUTSIDE", "ROLL_OVER", "ROLL_OUT", "DRAG_OVER",
      "DRAG_OUT", "KEY_PRESS", "CONSTRUCT">>

\* an action_buffer read at position start, size bytes long; <<>> is the
\* null pointer an auto_ptr holds once its buffer was handed over
ActionBuffer(start, size) == <<[start |-> start, size |-> size]>>

\* for (i = 0 .. total_known_events): new swf_event(s_code_bits[i], action)
\* for each bit set; the event takes the auto_ptr's buffer, and the
\* auto_ptr it was built from is left null
RECURSIVE swf_events(_, _, _, _)
swf_events(i, flags, ch, action) ==
    IF i >= total_known_events THEN <<>>
    ELSE IF WordBit(flags, i)
         THEN <<[event |-> s_code_bits[i + 1],
                 keyCode |-> IF i = 17 THEN ch ELSE keyINVALID,
                 action |-> action]>>
              \o swf_events(i + 1, flags, ch, <<>>)
         ELSE swf_events(i + 1, flags, ch, action)

running(s) == ~s.c.fail /\ ~s.brk

\* flags = read_u32 or read_u16; if (flags == 0) break
ev_begin(s) ==
    [s EXCEPT !.stage = "begin", !.declared = Word(0, 0), !.after_len = 0]
ev_flags_read(s) ==
    IF s.c.fail THEN s
    ELSE [s EXCEPT !.flags = s.c.val, !.brk = WordIsZero(s.c.val),
                   !.stage = IF WordIsZero(s.c.val) THEN "end" ELSE "flags"]
ev_flags(s, movie_version) ==
    IF ~running(s) THEN s
    ELSE ev_flags_read(got(s, read_flag_word(align(s.c), movie_version)))

\* event_length = read_u32; if (tag end - position < event_length) break
\* a length read without the check against the end of the tag
ev_length_read_unchecked(s) ==
    IF s.c.fail THEN s
    ELSE [s EXCEPT !.event_length = s.c.val, !.declared = s.c.val,
                   !.after_len = s.c.pos, !.stage = "length"]

ev_length_read(s) ==
    IF s.c.fail THEN s
    ELSE [s EXCEPT !.event_length = s.c.val,
                   !.brk = IntLessWord(get_tag_end_position(s.c)
                                         - get_position(s.c), s.c.val),
                   !.declared = s.c.val, !.after_len = s.c.pos,
                   !.stage = IF IntLessWord(get_tag_end_position(s.c)
                                              - get_position(s.c), s.c.val)
                             THEN "bound" ELSE "length"]
\* a length read from a field of 2 bytes
ev_length_shortField(s) ==
    IF ~running(s) THEN s
    ELSE ev_length_read(got(s, u16_widen(read_u16(s.c))))
ev_length(s) ==
    IF ~running(s) THEN s ELSE ev_length_read(got(s, read_u32(s.c)))

\* ch = key::INVALID; if (flags & (1 << 17)) { ch = read_u8; event_length-- }
ev_key_read(s) ==
    IF s.c.fail THEN s
    ELSE [s EXCEPT !.ch = s.c.val, !.event_length = WordDec(@)]
ev_key(s) ==
    IF ~running(s) THEN s
    ELSE IF WordBit(s.flags, 17) THEN ev_key_read(got(s, read_u8(s.c)))
    ELSE [s EXCEPT !.ch = keyINVALID]

\* action->read(in); readlen = action->size()
ev_action_read(s, from) ==
    IF s.c.fail THEN s
    ELSE [s EXCEPT !.start = from, !.readlen = s.c.pos - from,
                   !.stage = "action"]
ev_action(s) ==
    IF ~running(s) THEN s
    ELSE ev_action_read(got(s, action_read(s.c)), s.c.pos)

\* readlen > event_length: break; readlen < event_length: skip the rest,
\* and break if the skip is refused
\* a check that leaves the bytes after a short action where they are
ev_check_noSkip(s) ==
    IF ~running(s) THEN s
    ELSE IF WordLessInt(s.event_length, s.readlen)
         THEN [s EXCEPT !.brk = TRUE, !.stage = "longer"]
    ELSE IF IntLessWord(s.readlen, s.event_length)
         THEN [s EXCEPT !.stage = "skipped"]
    ELSE [s EXCEPT !.stage = "exact"]

\* a check that goes on to the registration after an action that is too long
ev_check_registersLonger(s) ==
    IF ~running(s) THEN s
    ELSE IF WordLessInt(s.event_length, s.readlen)
         THEN [s EXCEPT !.stage = "longer"]
    ELSE IF IntLessWord(s.readlen, s.event_length)
         THEN [s EXCEPT !.stage = "skipped"]
    ELSE [s EXCEPT !.stage = "exact"]
ev_skipped(s) ==
    [s EXCEPT !.brk = (s.c.val = 0),
              !.stage = IF s.c.val = 0 THEN "skip_failed" ELSE "skipped"]
ev_check(s) ==
    IF ~running(s) THEN s
    ELSE IF WordLessInt(s.event_length, s.readlen)
         THEN [s EXCEPT !.brk = TRUE, !.stage = "longer"]
    ELSE IF IntLessWord(s.readlen, s.event_length)
         THEN ev_skipped(got(s, skip_bytes(s.c,
                  WordMinusInt(s.event_length, s.readlen))))
    ELSE [s EXCEPT !.stage = "exact"]

\* a registration that breaks on a bit it does not know
ev_register_knownOnly(s) ==
    IF ~running(s) THEN s
    ELSE IF s.flags.hi >= 8 THEN [s EXCEPT !.brk = TRUE]
    ELSE [s EXCEPT !.t.m_event_handlers =
              @ \o swf_events(0, s.flags, s.ch,
                              ActionBuffer(s.start, s.readlen))]

\* m_event_handlers.push_back for every known bit of flags
ev_register(s) ==
    IF ~running(s) THEN s
    ELSE [s EXCEPT !.t.m_event_handlers =
              @ \o swf_events(0, s.flags, s.ch,
                              ActionBuffer(s.start, s.readlen))]

\* the log entry of the pass that took the state from s0 to s1
ev_log(s0, s1) ==
    [s1 EXCEPT !.log = Append(@,
        [at |-> s0.c.pos, flags |-> s1.flags, declared |-> s1.declared,
         after_len |-> s1.after_len, budget |-> s1.event_length,
         ch |-> s1.ch, start |-> s1.start, readlen |-> s1.readlen,
         to |-> s1.c.pos, stage |-> s1.stage, thrown |-> s1.c.fail,
         regs |-> SubSeq(s1.t.m_event_handlers,
                         Len(s0.t.m_event_handlers) + 1,
                         Len(s1.t.m_event_handlers))])]

\* one pass of the for (;;)
ev_pass(s, movie_version) ==
    ev_log(s, ev_register(ev_check(ev_action(ev_key(ev_length(
        ev_flags(ev_begin(s), movie_version)))))))

RECURSIVE readEvents(_, _)
ev_again(s, movie_version) ==
    IF running(s) THEN readEvents(s, movie_version) ELSE s
readEvents(s, movie_version) == ev_again(ev_pass(s, movie_version),
                                         movie_version)

pa_reserved(s) == noted(s, got(s, read_u16(s.c)), "reserved")
pa_all_event_flags(s, movie_version) ==
    noted(s, put(got(s, read_flag_word(s.c, movie_version)),
                 "all_event_flags"), "all_event_flags")

readPlaceActions(s, movie_version) ==
    readEvents(pa_all_event_flags(pa_reserved(s), movie_version),
               movie_version)

(* readPlaceObject2 *)
has_actions(s) == Bit(s.f, 7)
has_clip_bracket(s) == Bit(s.f, 6)
has_name(s) == Bit(s.f, 5)
has_ratio(s) == Bit(s.f, 4)
has_cxform(s) == Bit(s.f, 3)
has_matrix(s) == Bit(s.f, 2)
has_char(s) == Bit(s.f, 1)
flag_move(s) == Bit(s.f, 0)
has_bitmap_caching(s) == Bit(s.f2, 2)
has_blend_mode(s) == Bit(s.f2, 1)
has_filters(s) == Bit(s.f2, 0)

\* the eight read_bit() of the first flag byte
po2_flags_read(s) == IF s.c.fail THEN s ELSE [s EXCEPT !.f = s.c.val]
po2_flags(s) == noted(s, po2_flags_read(got(s, read_u8(align(s.c)))), "flags")

\* if (!place_2 && movie_version >= 8): read_uint(5) and three read_bit()
po2_flags2_read(s) == IF s.c.fail THEN s ELSE [s EXCEPT !.f2 = s.c.val]
\* a second flag byte read in a PLACEOBJECT3 of any version
po2_flags2_anyVersion(s, movie_version, place_2) ==
    IF ~place_2
    THEN noted(s, po2_flags2_read(got(s, read_u8(s.c))), "flags2")
    ELSE s

po2_flags2(s, movie_version, place_2) ==
    IF ~place_2 /\ movie_version >= 8
    THEN noted(s, po2_flags2_read(got(s, read_u8(s.c))), "flags2")
    ELSE s

po2_depth(s) == noted(s, put_depth(got(s, read_u16(s.c)), "m_depth"), "depth")

po2_character_id(s) ==
    IF has_char(s)
    THEN noted(s, put(got(s, read_u16(s.c)), "m_character_id"),
               "character_id")
    ELSE s

po2_matrix(s) ==
    IF has_matrix(s)
    THEN noted(s, put(got(set(s, "m_has_matrix", TRUE), matrix_read(s.c)),
                      "m_matrix"), "matrix")
    ELSE s

po2_cxform(s) ==
    IF has_cxform(s)
    THEN noted(s, put(got(set(s, "m_has_cxform", TRUE),
                          cxform_read_rgba(s.c)), "m_color_transform"),
               "cxform_rgba")
    ELSE s

po2_ratio(s) ==
    IF has_ratio(s)
    THEN noted(s, put(got(s, read_u16(s.c)), "m_ratio"), "ratio")
    ELSE set(s, "m_ratio", noRatioValue)

po2_name(s) ==
    IF has_name(s)
    THEN noted(s, put(got(s, read_string(s.c)), "m_name"), "name")
    ELSE s

po2_clip_depth(s) ==
    IF has_clip_bracket(s)
    THEN noted(s, put_depth(got(s, read_u16(s.c)), "m_clip_depth"),
               "clip_depth")
    ELSE set(s, "m_clip_depth", noClipDepthValue)

po2_filters(s) ==
    IF has_filters(s)
    THEN noted(s, got(s, filter_factory_read(s.c)), "filters")
    ELSE s

po2_blend_mode(s) ==
    IF has_blend_mode(s) THEN noted(s, got(s, read_u8(s.c)), "blend_mode")
    ELSE s

po2_bitmask(s) ==
    IF has_bitmap_caching(s) THEN noted(s, got(s, read_u8(s.c)), "bitmask")
    ELSE s

po2_actions(s, movie_version) ==
    IF ~s.c.fail /\ has_actions(s) THEN readPlaceActions(s, movie_version)
    ELSE s

\* a place type that takes the move flag first and forgets the replace
PlaceTypeOf_moveFirst(char, move) ==
    IF move THEN "MOVE"
    ELSE IF char THEN "PLACE"
    ELSE "REMOVE"

\* the if chain that ends readPlaceObject2
PlaceTypeOf(char, move) ==
    IF char = TRUE /\ move = TRUE THEN "REPLACE"
    ELSE IF char = FALSE /\ move = TRUE THEN "MOVE"
    ELSE IF char = TRUE /\ move = FALSE THEN "PLACE"
    ELSE "REMOVE"

po2_place_type(s) ==
    set(s, "m_place_type", PlaceTypeOf(has_char(s), flag_move(s)))

\* the fields with the ratio moved behind the clip depth
po2_fields_ratioLast(s) ==
    po2_ratio(po2_clip_depth(po2_name(po2_cxform(po2_matrix(
        po2_character_id(po2_depth(s)))))))

\* the fields read between the flags and the filters, in their order
po2_fields(s) ==
    po2_clip_depth(po2_name(po2_ratio(po2_cxform(po2_matrix(
        po2_character_id(po2_depth(s)))))))

po2_extras(s) == po2_bitmask(po2_blend_mode(po2_filters(s)))

readPlaceObject2(s, movie_version, place_2) ==
    po2_place_type(po2_actions(
        po2_extras(po2_fields(
            po2_flags2(po2_flags(s), movie_version, place_2))),
        movie_version))

read(s, tag, movie_version) ==
    IF tag = "PLACEOBJECT"
    THEN readPlaceObject([s EXCEPT !.t.m_tag_type = tag])
    ELSE readPlaceObject2([s EXCEPT !.t.m_tag_type = tag], movie_version,
             IF tag = "PLACEOBJECT3" THEN FALSE ELSE TRUE)

\* ch->read(in, tag, m->get_version()) on a new tag
decode(in) == read(NewState(in), in.tag, in.version)

(***************************************************************************)
(* The display list of a sprite_instance: character instances in depth     *)
(* order.  An instance is                                                  *)
(*   [id, depth, character_id, name, cxform, matrix, ratio, clip_depth,    *)
(*    events]                                                              *)
(* where id is the identity of the instance (the object created).          *)
(* A pointer argument is <<>> (NULL) or <<v>> (the address of v).          *)
(***************************************************************************)
\* the character ids the movie's dictionary defines
CharacterDict == {1, 2}

Occupied(dl, depth) == \E i \in DOMAIN dl : dl[i].depth = depth
OccupantAt(dl, depth) == dl[CHOOSE i \in DOMAIN dl : dl[i].depth = depth]
Without(dl, depth) == SelectSeq(dl, LAMBDA e : e.depth # depth)
Inserted(dl, inst) ==
    SelectSeq(dl, LAMBDA e : e.depth < inst.depth) \o <<inst>>
        \o SelectSeq(dl, LAMBDA e : e.depth >= inst.depth)

\* an add that keeps the occupant of the depth beside the new instance
add_display_object_keeping(dl, id, character_id, name, handlers, depth, cxform, matrix, ratio, clip_depth) ==
    IF character_id \notin CharacterDict THEN dl
    ELSE Inserted(dl,
             [id |-> id, depth |-> depth, character_id |-> character_id,
              name |-> name, cxform |-> cxform, matrix |-> matrix,
              ratio |-> ratio, clip_depth |-> clip_depth,
              events |-> handlers])

add_display_object(dl, id, character_id, name, handlers, depth, cxform, matrix, ratio, clip_depth) ==
    IF character_id \notin CharacterDict THEN dl
    ELSE Inserted(Without(dl, depth),
             [id |-> id, depth |-> depth, character_id |-> character_id,
              name |-> name, cxform |-> cxform, matrix |-> matrix,
              ratio |-> ratio, clip_depth |-> clip_depth,
              events |-> handlers])

move_display_object(dl, depth, cxform, matrix, ratio, clip_depth) ==
    [i \in DOMAIN dl |->
        IF dl[i].depth # depth THEN dl[i]
        ELSE [dl[i] EXCEPT
                !.cxform = IF cxform # <<>> THEN cxform[1] ELSE @,
                !.matrix = IF matrix # <<>> THEN matrix[1] ELSE @,
                !.ratio = IF ratio # noRatioValue THEN ratio ELSE @,
                !.clip_depth =
                    IF clip_depth # noClipDepthValue THEN clip_depth
                    ELSE @]]

replace_display_object(dl, id, character_id, name, depth, cxform, matrix, ratio, clip_depth) ==
    IF ~Occupied(dl, depth) \/ character_id \notin CharacterDict THEN dl
    ELSE Inserted(Without(dl, depth),
             [id |-> id, depth |-> depth, character_id |-> character_id,
              name |-> name,
              cxform |-> IF cxform # <<>> THEN cxform[1] ELSE 0,
              matrix |-> IF matrix # <<>> THEN matrix[1] ELSE 0,
              ratio |-> ratio, clip_depth |-> clip_depth,
              events |-> <<>>])

remove_display_object(dl, depth) == Without(dl, depth)

PtrIf(has, v) == IF has THEN <<v>> ELSE <<>>

\* a place that hands over no event handlers
execute_PLACE_noHandlers(dl, id, t) ==
    add_display_object(dl, id, t.m_character_id, t.m_name, <<>>, t.m_depth,
        t.m_color_transform, t.m_matrix, t.m_ratio, t.m_clip_depth)

\* a place that clears the depth before it looks the character up
execute_PLACE_clearsDepth(dl, id, t) ==
    add_display_object(remove_display_object(dl, t.m_depth), id,
        t.m_character_id, t.m_name, t.m_event_handlers, t.m_depth,
        t.m_color_transform, t.m_matrix, t.m_ratio, t.m_clip_depth)
execute_PLACE(dl, id, t) ==
    add_display_object(dl, id, t.m_character_id, t.m_name,
        t.m_event_handlers, t.m_depth, t.m_color_transform, t.m_matrix,
        t.m_ratio, t.m_clip_depth)

\* a move whose depth and clip depth arguments changed places
execute_MOVE_swapped(dl, id, t) ==
    move_display_object(dl, t.m_clip_depth,
        PtrIf(t.m_has_cxform, t.m_color_transform),
        PtrIf(t.m_has_matrix, t.m_matrix), t.m_ratio, t.m_depth)

execute_MOVE(dl, id, t) ==
    move_display_object(dl, t.m_depth,
        PtrIf(t.m_has_cxform, t.m_color_transform),
        PtrIf(t.m_has_matrix, t.m_matrix), t.m_ratio, t.m_clip_depth)

\* a replace that calls add_display_object
execute_REPLACE_adds(dl, id, t) ==
    add_display_object(dl, id, t.m_character_id, t.m_name, <<>>, t.m_depth,
        t.m_color_transform, t.m_matrix, t.m_ratio, t.m_clip_depth)

execute_REPLACE(dl, id, t) ==
    replace_display_object(dl, id, t.m_character_id, t.m_name, t.m_depth,
        PtrIf(t.m_has_cxform, t.m_color_transform),
        PtrIf(t.m_has_matrix, t.m_matrix), t.m_ratio, t.m_clip_depth)

execute_REMOVE(dl, id, t) == remove_display_object(dl, t.m_depth)

\* the switch without the break that ends case REPLACE
execute_ReplaceFallsThrough(dl, id, t) ==
    CASE t.m_place_type = "PLACE" -> execute_PLACE(dl, id, t)
      [] t.m_place_type = "MOVE" -> execute_MOVE(dl, id, t)
      [] t.m_place_type = "REPLACE" ->
             execute_REMOVE(execute_REPLACE(dl, id, t), id, t)
      [] t.m_place_type = "REMOVE" -> execute_REMOVE(dl, id, t)

\* a switch whose case MOVE hands the matrix over whether read or not
execute_MoveAlwaysMatrix(dl, id, t) ==
    CASE t.m_place_type = "PLACE" -> execute_PLACE(dl, id, t)
      [] t.m_place_type = "MOVE" ->
             move_display_object(dl, t.m_depth,
                 PtrIf(t.m_has_cxform, t.m_color_transform),
                 <<t.m_matrix>>, t.m_ratio, t.m_clip_depth)
      [] t.m_place_type = "REPLACE" -> execute_REPLACE(dl, id, t)
      [] t.m_place_type = "REMOVE" -> execute_REMOVE(dl, id, t)

\* PlaceObject2Tag::execute: the switch on m_place_type
execute(dl, id, t) ==
    CASE t.m_place_type = "PLACE" -> execute_PLACE(dl, id, t)
      [] t.m_place_type = "MOVE" -> execute_MOVE(dl, id, t)
      [] t.m_place_type = "REPLACE" -> execute_REPLACE(dl, id, t)
      [] t.m_place_type = "REMOVE" -> execute_REMOVE(dl, id, t)

(***************************************************************************)
(* PlaceObject2Tag::loader on a movie definition m = [playlist,            *)
(* timelineDepths]: thrown is TRUE when read() left by an exception, and   *)
(* then nothing after the read was done.                                   *)
(***************************************************************************)
\* a loader that adds the tag to the execute list before it reads it
loader_addsBeforeRead(m, s) ==
    [playlist |-> Append(m.playlist, s.t),
     timelineDepths |-> m.timelineDepths,
     thrown |-> s.c.fail, t |-> s.t, hi |-> s.c.hi,
     log |-> s.log, reads |-> s.reads]

\* a loader that registers the depth of every tag it read
loader_registersAnyDepth(m, s) ==
    [playlist |-> IF s.c.fail THEN m.playlist ELSE Append(m.playlist, s.t),
     timelineDepths |->
         IF s.c.fail THEN m.timelineDepths
         ELSE m.timelineDepths \cup {s.t.m_depth},
     thrown |-> s.c.fail, t |-> s.t, hi |-> s.c.hi,
     log |-> s.log, reads |-> s.reads]
\* a loader that empties the execute list when read() has thrown
loader_abortsOnThrow(m, s) ==
    IF s.c.fail
    THEN [playlist |-> <<>>, timelineDepths |-> m.timelineDepths,
          thrown |-> TRUE, t |-> s.t, hi |-> s.c.hi,
          log |-> s.log, reads |-> s.reads]
    ELSE [playlist |-> Append(m.playlist, s.t),
          timelineDepths |->
              IF s.t.m_depth < 0 /\ s.t.m_depth >= staticDepthOffset
              THEN m.timelineDepths \cup {s.t.m_depth}
              ELSE m.timelineDepths,
          thrown |-> FALSE, t |-> s.t, hi |-> s.c.hi,
          log |-> s.log, reads |-> s.reads]
\* the statements after ch->read(...), which an exception of read skips
loader_after_read(m, s) ==
    IF s.c.fail
    THEN [playlist |-> m.playlist, timelineDepths |-> m.timelineDepths,
          thrown |-> TRUE, t |-> s.t, hi |-> s.c.hi,
          log |-> s.log, reads |-> s.reads]
    ELSE [playlist |-> Append(m.playlist, s.t),
          timelineDepths |->
              IF s.t.m_depth < 0 /\ s.t.m_depth >= staticDepthOffset
              THEN m.timelineDepths \cup {s.t.m_depth}
              ELSE m.timelineDepths,
          thrown |-> FALSE, t |-> s.t, hi |-> s.c.hi,
          log |-> s.log, reads |-> s.reads]

loader(m, in) == loader_after_read(m, decode(in))

(***************************************************************************)
(* The tags the model reads: byte strings built field by field, cut at     *)
(* their end or before it, and followed by the bytes of the next tag.      *)
(***************************************************************************)
U16(v) == <<v % 256, v \div 256>>
U32(v) == U16(v % 65536) \o U16(v \div 65536)
FlagWord(version, v) == IF version >= 6 THEN U32(v) ELSE U16(v)
IfBytes(b, bytes) == IF b THEN bytes ELSE <<>>

\* the bytes that follow a tag in the file
NextTagBytes == <<3, 0, 3, 0, 3, 0>>

\* one event record: flag word, declared length, key code (if any), actions
EventRecord(version, flags, length, body) ==
    FlagWord(version, flags) \o U32(length) \o body

\* the event table: reserved word, all_event_flags, records, end marker
EventTable(version, records) ==
    U16(0) \o FlagWord(version, 2) \o records \o FlagWord(version, 0)

\* a PLACEOBJECT2 / PLACEOBJECT3 body with the fields its flags announce
Body2(f, second, depth, char, events) ==
    <<f>> \o second \o U16(depth)
        \o IfBytes(Bit(f, 1), U16(char))
        \o IfBytes(Bit(f, 2), <<1>>)
        \o IfBytes(Bit(f, 3), <<1>>)
        \o IfBytes(Bit(f, 4), U16(7))
        \o IfBytes(Bit(f, 5), <<110, 0>>)
        \o IfBytes(Bit(f, 6), U16(2))
        \o IfBytes(second # <<>> /\ Bit(Head(second \o <<0>>), 0), <<1, 5>>)
        \o IfBytes(second # <<>> /\ Bit(Head(second \o <<0>>), 1), <<4>>)
        \o IfBytes(second # <<>> /\ Bit(Head(second \o <<0>>), 2), <<1>>)
        \o IfBytes(Bit(f, 7), events)

Tag(kind, version, body, end) ==
    [tag |-> kind, version |-> version, data |-> body \o NextTagBytes,
     end |-> end]

WholeTag(kind, version, body) == Tag(kind, version, body, Len(body))
CutTags(kind, version, body) ==
    {Tag(kind, version, body, e) : e \in 0 .. Len(body)}

\* an event table of one ENTER_FRAME record with a one-byte action
OneEvent(version) ==
    EventTable(version, EventRecord(version, 2, 1, <<0>>))

(***************************************************************************)
(* The tags of the movie that is played (specification Spec).              *)
(***************************************************************************)
\* a PLACEOBJECT2 tag of the movie, which is of version 7
StreamTag(f, depth, char) ==
    WholeTag("PLACEOBJECT2", 7, Body2(f, <<>>, depth, char, OneEvent(7)))
StreamTagCut(f, depth, char, end) ==
    Tag("PLACEOBJECT2", 7, Body2(f, <<>>, depth, char, OneEvent(7)), end)

\* place and replace tags: first flag byte and character
StreamPlaces ==
    {<<2, 1>>, <<2, 2>>, <<2, 3>>, <<254, 1>>,   \* place: bare, every field
     <<3, 2>>, <<3, 3>>, <<255, 2>>}             \* replace: bare, every field
\* move tags (one field each; name and actions) and the remove tag
StreamMoves == {5, 9, 17, 65, 161, 0}
StreamFlagsBack == {2, 0}

StreamTags ==
    {StreamTag(p[1], 1, p[2]) : p \in StreamPlaces}
    \cup {StreamTag(f, 1, 1) : f \in StreamMoves}
    \cup {StreamTag(f, 2, 1) : f \in StreamFlagsBack}
    \cup {WholeTag("PLACEOBJECT", 7, U16(2) \o U16(1) \o <<1, 1>>)}
    \cup {StreamTagCut(6, 1, 2, 5), StreamTagCut(254, 2, 2, 20)}

(***************************************************************************)
(* The tags the decoder is tried on (specification SpecDecode): every      *)
(* first flag byte in three variants of the tag, and a choice of bodies    *)
(* cut at every position.                                                  *)
(***************************************************************************)
Variants ==
    {[tag |-> "PLACEOBJECT2", version |-> 5, second |-> <<>>],
     [tag |-> "PLACEOBJECT2", version |-> 6, second |-> <<>>],
     [tag |-> "PLACEOBJECT2", version |-> 8, second |-> <<>>],
     [tag |-> "PLACEOBJECT3", version |-> 7, second |-> <<>>],
     [tag |-> "PLACEOBJECT3", version |-> 8, second |-> <<0>>],
     [tag |-> "PLACEOBJECT3", version |-> 8, second |-> <<7>>]}

\* event tables, well formed and not, for a flag word of 32 or 16 bits
EventTables(version) ==
    {OneEvent(version),
     \* two records, the first on two events
     EventTable(version, EventRecord(version, 3, 1, <<0>>)
                         \o EventRecord(version, 1024, 2, <<7, 0>>)),
     \* a declared length longer than the action read
     EventTable(version, EventRecord(version, 2, 3, <<0, 9, 9>>)
                         \o EventRecord(version, 1, 1, <<0>>)),
     \* a declared length shorter than the action read
     EventTable(version, EventRecord(version, 2, 1, <<5, 0>>)),
     \* the same after a well-formed record
     EventTable(version, EventRecord(version, 1, 1, <<0>>)
                         \o EventRecord(version, 2, 1, <<5, 0>>)),
     \* a declared length beyond the end of the tag
     EventTable(version, EventRecord(version, 2, 200, <<0>>)),
     \* an action without its end
     EventTable(version, EventRecord(version, 2, 3, <<5, 5, 5>>))}
    \cup (IF version < 6 THEN {}
          ELSE {\* a key press: key code, then the action
                EventTable(version,
                    EventRecord(version, 131072, 2, <<65, 0>>)),
                \* a key press together with other events
                EventTable(version,
                    EventRecord(version, 131072 + 262144 + 1, 3,
                                <<65, 0, 9>>)),
                \* a key press of declared length 0
                EventTable(version,
                    EventRecord(version, 131072, 0, <<65, 0>>)),
                \* the same after a well-formed record
                EventTable(version,
                    EventRecord(version, 1, 1, <<0>>)
                    \o EventRecord(version, 131072, 0, <<65, 0>>)),
                \* bits that name no known event
                EventTable(version,
                    EventRecord(version, 524288 + 2, 1, <<0>>)
                    \o EventRecord(version, 1048576, 1, <<0>>)
                    \o EventRecord(version, 4, 1, <<0>>))})

\* raw depths at the two ends of the timeline range and beyond it
EdgeDepths == {0, 16383, 16384, 65535}

DecodeInputs ==
    UNION {{WholeTag(v.tag, v.version,
                     Body2(f, v.second, 1, 1, OneEvent(v.version))) :
                f \in 0 .. 255} : v \in Variants}
    \cup UNION {CutTags(v.tag, v.version,
                        Body2(f, v.second, 2, 2, OneEvent(v.version))) :
                    f \in {0, 2, 127, 255}, v \in Variants}
    \cup UNION {UNION {CutTags("PLACEOBJECT2", version,
                               Body2(130, <<>>, 1, 1, ev)) :
                           ev \in EventTables(version)} :
                    version \in {5, 6}}
    \cup UNION {CutTags("PLACEOBJECT", 6, body) :
                    body \in {U16(1) \o U16(1) \o <<1>>,
                              U16(1) \o U16(1) \o <<1, 1>>,
                              U16(1) \o U16(49152) \o <<1, 1>>}}
    \cup {WholeTag(v.tag, v.version,
                   Body2(f, v.second, depth, 1, OneEvent(v.version))) :
              f \in {2, 1}, depth \in EdgeDepths, v \in Variants}

(***************************************************************************)
(* The player: tags are loaded into the movie's execute list and executed  *)
(* in the order they were loaded.                                          *)
(***************************************************************************)
NoTag == [tag |-> "NONE", version |-> 0, data |-> <<>>, end |-> 0]
\* no file is read tag after tag
NoStream == [tags |-> <<>>, pos |-> 0, applied |-> <<>>]
\* no Date object, no glue object
NoDate == [value |-> <<>>]
NoGlue == <<>>

Init ==
    /\ playlist = <<>>
    /\ timelineDepths = {}
    /\ dlist = <<>>
    /\ nextId = 0
    /\ last = [op |-> "none", in |-> NoTag, thrown |-> FALSE, t |-> NewTag,
               hi |-> 0, before |-> <<>>, queued |-> <<>>,
               log |-> <<>>, reads |-> <<>>]
    /\ stream = NoStream
    /\ date = NoDate
    /\ glue = NoGlue

\* the loader is called on the next tag of the file
Loaded(in, queued, m) ==
    /\ playlist' = m.playlist
    /\ timelineDepths' = m.timelineDepths
    /\ last' = [op |-> "loader", in |-> in, thrown |-> m.thrown,
                t |-> m.t, hi |-> m.hi, before |-> dlist,
                queued |-> queued, log |-> m.log, reads |-> m.reads]
    /\ UNCHANGED <<dlist, nextId>>

Load(in) ==
    /\ Len(playlist) < MaxPlaylist
    /\ Loaded(in, playlist,
              loader([playlist |-> playlist,
                      timelineDepths |-> timelineDepths], in))
    /\ UNCHANGED <<stream, date, glue>>

\* the sprite executes the next tag of the execute list
ExecuteHead ==
    /\ playlist # <<>>
    /\ LET t == Head(playlist)
       IN  /\ t.m_place_type \in {"PLACE", "REPLACE"} => nextId < MaxInstances
           /\ dlist' = execute(dlist, nextId, t)
           /\ nextId' = IF \E i \in DOMAIN dlist' : dlist'[i].id = nextId
                        THEN nextId + 1 ELSE nextId
           /\ last' = [op |-> "execute", in |-> NoTag, thrown |-> FALSE,
                       t |-> t, hi |-> 0, before |-> dlist,
                       queued |-> playlist, log |-> <<>>, reads |-> <<>>]
    /\ playlist' = Tail(playlist)
    /\ UNCHANGED timelineDepths

ExecuteTag == ExecuteHead /\ UNCHANGED <<stream, date, glue>>

Next == (\E in \in StreamTags : Load(in)) \/ ExecuteTag

Spec == Init /\ [][Next]_vars

\* a movie is opened and the loader is called on its first tag
LoadFirst(in) ==
    /\ last.op = "none"
    /\ Loaded(in, <<>>,
              loader([playlist |-> <<>>, timelineDepths |-> {}], in))
    /\ UNCHANGED <<stream, date, glue>>

NextDecode == \E in \in DecodeInputs : LoadFirst(in)

SpecDecode == Init /\ [][NextDecode]_vars

(***************************************************************************)
(* A file read tag after tag (specification SpecStream): the tag loop      *)
(* calls the loader on each tag in turn, each tag being a byte range of    *)
(* its own, and goes on to the next tag when read() has thrown; the sprite *)
(* executes the tags of the execute list.  What read() makes of a tag is a *)
(* function of the tag's bytes and version alone, so the file is kept as   *)
(* its tags [in, read], read being the state decode(in) leaves; the loader *)
(* takes it from there when it comes to the tag.                           *)
(***************************************************************************)
\* a PLACEOBJECT2 tag of version 7 that has actions only
ActionsTag(events) ==
    WholeTag("PLACEOBJECT2", 7, Body2(130, <<>>, 1, 1, events))

WellFormedTags == {StreamTag(2, 1, 1), StreamTag(5, 1, 1)}
MalformedTags ==
    {\* cut inside its fields
     StreamTagCut(6, 1, 2, 5),
     \* an event length beyond the end of the tag
     ActionsTag(EventTable(7, EventRecord(7, 2, 200, <<0>>))),
     \* event bits that name no known event
     ActionsTag(EventTable(7, EventRecord(7, 524288 + 2, 1, <<0>>))),
     \* a reserved field that is not 0
     ActionsTag(U16(1) \o FlagWord(7, 2) \o EventRecord(7, 2, 1, <<0>>)
                \o FlagWord(7, 0)),
     \* a depth beyond the timeline range
     StreamTag(2, 16384, 2)}

StreamsOf(n) ==
    [1 .. n -> {[in |-> in, read |-> decode(in)] :
                    in \in WellFormedTags \cup MalformedTags}]

InitStream ==
    /\ playlist = <<>>
    /\ timelineDepths = {}
    /\ dlist = <<>>
    /\ nextId = 0
    /\ last = [op |-> "none", in |-> NoTag, thrown |-> FALSE, t |-> NewTag,
               hi |-> 0, before |-> <<>>, queued |-> <<>>,
               log |-> <<>>, reads |-> <<>>]
    /\ \E tags \in StreamsOf(StreamLen) :
           stream = [tags |-> tags, pos |-> 0, applied |-> <<>>]
    /\ date = NoDate
    /\ glue = NoGlue

\* the tag loop calls the loader on the next tag of the file
LoadNext ==
    /\ stream.pos < Len(stream.tags)
    /\ Loaded(stream.tags[stream.pos + 1].in, playlist,
              loader_after_read([playlist |-> playlist,
                                 timelineDepths |-> timelineDepths],
                                stream.tags[stream.pos + 1].read))
    /\ stream' = [stream EXCEPT !.pos = @ + 1]
    /\ UNCHANGED <<date, glue>>

\* the sprite executes the next tag of the execute list
ApplyNext ==
    /\ ExecuteHead
    /\ stream' = [stream EXCEPT !.applied = Append(@, Head(playlist))]
    /\ UNCHANGED <<date, glue>>

NextStream == LoadNext \/ ApplyNext

\* the tag loop runs until the file ends and the sprite executes what is
\* on its execute list
SpecStream ==
    InitStream /\ [][NextStream]_vars
        /\ WF_vars(LoadNext) /\ WF_vars(ApplyNext)


(***************************************************************************)
(* The Date class (server/asobj/Date.cpp).  A Date holds a double, the     *)
(* milliseconds since 1 Jan 1970.  Such a value exceeds the integers of    *)
(* the model, so it is kept as [neg, days, ms, frac]: its sign, the whole  *)
(* days and the milliseconds of the day of its magnitude, and whether half *)
(* a millisecond is to be added to the magnitude; a negative value has a   *)
(* magnitude above 0.  boost::int32_t values are integers of the model.    *)
(***************************************************************************)
\* C++ integer division and remainder, which truncate toward zero (b > 0),
\* from the division and remainder of the model, which round down
cdiv(a, b) == IF a >= 0 \/ a % b = 0 THEN a \div b ELSE (a \div b) + 1
cmod(a, b) == IF a >= 0 \/ a % b = 0 THEN a % b ELSE (a % b) - b

INT32_MAX == 2147483647
msPerDay == 86400000

daysInMonth ==
    [leap \in BOOLEAN |->
        IF leap THEN <<31, 29, 31, 30, 31, 30, 31, 31, 30, 31, 30, 31>>
        ELSE <<31, 28, 31, 30, 31, 30, 31, 31, 30, 31, 30, 31>>]
IS_LEAP_YEAR(n) ==
    cmod(n + 1900, 400) = 0
        \/ (cmod(n + 1900, 4) = 0 /\ cmod(n + 1900, 100) # 0)
COUNT_LEAP_YEARS(n) ==
    cdiv(n - 70, 4) - cdiv(n - 70, 100) + cdiv(n - 70, 400)

\* the double day * 86400000.0 + small as a value of the model
TimeOf(day, small) ==
    IF day + (small \div msPerDay) >= 0
    THEN [neg |-> FALSE, days |-> day + (small \div msPerDay),
          ms |-> small % msPerDay, frac |-> FALSE]
    ELSE IF small % msPerDay = 0
    THEN [neg |-> TRUE, days |-> -(day + (small \div msPerDay)),
          ms |-> 0, frac |-> FALSE]
    ELSE [neg |-> TRUE, days |-> -(day + (small \div msPerDay)) - 1,
          ms |-> msPerDay - (small % msPerDay), frac |-> FALSE]

\* the value of an int32 expression with the sign of time and magnitude n
Signed(time, n) == IF time.neg THEN -n ELSE n

(* fillGnashTime *)
\* (int32) std::fmod(time, 1000.0); after time /= 1000.0,
\* (int32) std::fmod(time, 86400.0) and (int32) (time / 86400.0)
fmod_1000(time) == Signed(time, time.ms % 1000)
fmod_86400(time) == Signed(time, time.ms \div 1000)
complete_days(time) == Signed(time, time.days)

\* the fields as split off the value, before the borrows
fg_split(time) ==
    [millisecond |-> fmod_1000(time),
     second |-> cmod(fmod_86400(time), 60),
     minute |-> cmod(cdiv(fmod_86400(time), 60), 60),
     hour |-> cmod(cdiv(cdiv(fmod_86400(time), 60), 60), 24),
     days |-> complete_days(time),
     weekday |-> 0, year |-> 0, month |-> 0, monthday |-> 0]

fg_borrow_ms(g) ==
    IF g.millisecond < 0
    THEN [g EXCEPT !.millisecond = @ + 1000, !.second = @ - 1] ELSE g
fg_borrow_second(g) ==
    IF g.second < 0 THEN [g EXCEPT !.second = @ + 60, !.minute = @ - 1]
    ELSE g
fg_borrow_minute(g) ==
    IF g.minute < 0 THEN [g EXCEPT !.minute = @ + 60, !.hour = @ - 1]
    ELSE g
fg_borrow_hour(g) ==
    IF g.hour < 0 THEN [g EXCEPT !.hour = @ + 24, !.days = @ - 1] ELSE g
\* if (time < 0) { ... }
fg_borrow(time, g) ==
    IF time.neg
    THEN fg_borrow_hour(fg_borrow_minute(fg_borrow_second(fg_borrow_ms(g))))
    ELSE g

\* (days + 4) % 7 in int32.  When days + 4 exceeds INT32_MAX the behaviour
\* is undefined: a build that does the addition in 32 bits wraps around,
\* one that has simplified the expression gives the remainder of the sum.
days_plus_4_mod_7(days, build) ==
    IF days <= INT32_MAX - 4 THEN cmod(days + 4, 7)
    ELSE IF build = "wraps"
    THEN cmod((days - INT32_MAX - 1) + (4 - INT32_MAX - 1), 7)
    ELSE ((days % 7) + 4) % 7

fg_weekday(g, build) ==
    [g EXCEPT !.weekday = IF g.days >= -4
                          THEN days_plus_4_mod_7(g.days, build)
                          ELSE 6 - cmod((-5) - g.days, 7)]

\* getYearBruteForce: the loops for days >= 0 and for days < 0; year is
\* the Gregorian year, the result the year since 1900 and the day in it
RECURSIVE gy_forward(_, _)
gy_forward(year, days) ==
    IF days < (IF IS_LEAP_YEAR(year - 1900) THEN 366 ELSE 365)
    THEN [year |-> year - 1900, days |-> days]
    ELSE gy_forward(year + 1,
             days - (IF IS_LEAP_YEAR(year - 1900) THEN 366 ELSE 365))
RECURSIVE gy_backward(_, _)
gy_backward(year, days) ==
    IF days + (IF IS_LEAP_YEAR(year - 1 - 1900) THEN 366 ELSE 365) < 0
    THEN gy_backward(year - 1,
             days + (IF IS_LEAP_YEAR(year - 1 - 1900) THEN 366 ELSE 365))
    ELSE [year |-> year - 1 - 1900,
          days |-> days + (IF IS_LEAP_YEAR(year - 1 - 1900) THEN 366
                           ELSE 365)]
getYearBruteForce(days) ==
    IF cmod(days, 146097) >= 0
    THEN gy_forward(1970 + cdiv(days, 146097) * 400, cmod(days, 146097))
    ELSE gy_backward(1970 + cdiv(days, 146097) * 400, cmod(days, 146097))

fg_year(g) ==
    [g EXCEPT !.year = getYearBruteForce(g.days).year,
              !.days = getYearBruteForce(g.days).days]

\* the loop over the months; i counts from 0
RECURSIVE fg_month_from(_, _)
fg_month_from(g, i) ==
    IF i >= 12 THEN g
    ELSE IF g.days - daysInMonth[IS_LEAP_YEAR(g.year)][i + 1] < 0
    THEN [g EXCEPT !.month = i]
    ELSE fg_month_from(
             [g EXCEPT !.days = @ - daysInMonth[IS_LEAP_YEAR(g.year)][i + 1]],
             i + 1)
fg_month(g) == fg_month_from([g EXCEPT !.month = 0], 0)

\* the GnashTime filled: gt.monthday = days + 1 comes last
fg_monthday(g) ==
    [millisecond |-> g.millisecond, second |-> g.second,
     minute |-> g.minute, hour |-> g.hour, monthday |-> g.days + 1,
     weekday |-> g.weekday, month |-> g.month, year |-> g.year]

fillGnashTime(time, build) ==
    fg_monthday(fg_month(fg_year(
        fg_weekday(fg_borrow(time, fg_split(time)), build))))

(* makeTimeValue *)
\* the year and the month after the months beyond 0..11 moved to the year
mt_months(t) ==
    IF cmod(t.month, 12) < 0
    THEN [t EXCEPT !.year = @ + cdiv(t.month, 12) - 1,
                   !.month = cmod(t.month, 12) + 12]
    ELSE [t EXCEPT !.year = @ + cdiv(t.month, 12),
                   !.month = cmod(t.month, 12)]
\* the days from 1970 to the first day of the year
mt_year_days(year) ==
    IF year < 70
    THEN COUNT_LEAP_YEARS(year - 2) + ((year - 70) * 365)
             + (IF year <= 0 THEN 1 ELSE 0)
    ELSE COUNT_LEAP_YEARS(year + 1) + ((year - 70) * 365)
\* the days of the months before month i of the year
RECURSIVE mt_month_days(_, _)
mt_month_days(year, i) ==
    IF i <= 0 THEN 0
    ELSE daysInMonth[IS_LEAP_YEAR(year)][i] + mt_month_days(year, i - 1)
mt_value(t) ==
    TimeOf(mt_year_days(t.year) + mt_month_days(t.year, t.month)
               + t.monthday - 1,
           t.hour * 3600000 + t.minute * 60000 + t.second * 1000
               + t.millisecond)
makeTimeValue(t) == mt_value(mt_months(t))

\* dateToGnashTime and gnashTimeToDate, which take no time zone
dateToGnashTime(value, build) == fillGnashTime(value, build)
gnashTimeToDate(gt) == makeTimeValue(gt)

\* _date_sethours called with one argument
date_sethours(value, hour, build) ==
    gnashTimeToDate([dateToGnashTime(value, build) EXCEPT !.hour = hour])

(***************************************************************************)
(* A script works on a Date (specification SpecDate): the object is made   *)
(* with a value, then one of its getters or setHours() is called.          *)
(***************************************************************************)
\* day numbers from 1 Jan 1970: the ends of 1569, 1872, 1899, 1969, 1972,
\* 2000, 2068 and 2100, the days about 29 Feb of 1900, 1968, 1972, 2000
\* and 2100, the days about the epoch, and 1 Jan 2370
CalendarDays ==
    {-146098, -146097, -35429, -35428, -25568, -25567, -25509, -25508,
     -672, -7, -5, -4, -1, 0, 1, 789, 1095, 11016, 11322, 36159, 36160,
     47540, 47541, 47846, 47847, 146097}
\* milliseconds of the day: 0:00:00.000, .001, 0:00:01.000, 12:00:00.000,
\* 12:01:01.001, 23:59:59.999
TimesOfDay == {0, 1, 1000, 43200000, 43261001, 86399999}
CalendarValues == {TimeOf(d, r) : d \in CalendarDays, r \in TimesOfDay}
\* values with half a millisecond: 0.5, -0.5, -999.5, -86400000.5
FractionValues ==
    {[neg |-> FALSE, days |-> 0, ms |-> 0, frac |-> TRUE],
     [neg |-> TRUE, days |-> 0, ms |-> 0, frac |-> TRUE],
     [neg |-> TRUE, days |-> 0, ms |-> 999, frac |-> TRUE],
     [neg |-> TRUE, days |-> 1, ms |-> 0, frac |-> TRUE]}
\* values whose days reach the end of int32
FarValues ==
    {[neg |-> FALSE, days |-> d, ms |-> r, frac |-> FALSE] :
         d \in {INT32_MAX - 4, INT32_MAX - 3, INT32_MAX},
         r \in {0, 86399999}}
DateValues == CalendarValues \cup FractionValues \cup FarValues
SetHoursArgs == {0, 12, 23}
\* what undefined behaviour comes to in a build
Builds == {"wraps", "simplified"}

InitDate ==
    /\ playlist = <<>>
    /\ timelineDepths = {}
    /\ dlist = <<>>
    /\ nextId = 0
    /\ stream = NoStream
    /\ glue = NoGlue
    /\ \E value \in DateValues : date = [value |-> value]
    /\ last = [op |-> "new", before |-> <<>>, gt |-> <<>>, arg |-> 0]

\* date_get_proto: a getter breaks the value down and returns one field
GetField(build) ==
    /\ last.op = "new"
    /\ last' = [op |-> "get", before |-> date.value,
                gt |-> dateToGnashTime(date.value, build), arg |-> 0]
    /\ UNCHANGED <<playlist, timelineDepths, dlist, nextId, stream, date,
                   glue>>

\* Date.setHours(hour) on a date of the calendar
SetHours(hour, build) ==
    /\ last.op = "new"
    /\ date.value \in CalendarValues
    /\ date' = [value |-> date_sethours(date.value, hour, build)]
    /\ last' = [op |-> "setHours", before |-> date.value,
                gt |-> dateToGnashTime(date.value, build), arg |-> hour]
    /\ UNCHANGED <<playlist, timelineDepths, dlist, nextId, stream, glue>>

NextDate ==
    \/ \E build \in Builds : GetField(build)
    \/ \E hour \in SetHoursArgs, build \in Builds : SetHours(hour, build)

SpecDate == InitDate /\ [][NextDate]_vars

(***************************************************************************)
(* The GTK-AGG glue (gui/gtk_glue_agg.cpp).  A GtkAggGlue g has the        *)
(* members of the class and, for the model, what the build was configured  *)
(* with (ENABLE_MIT_SHM, PIXELFORMAT_RGB565, the pixel formats the AGG     *)
(* renderer was compiled for), whether the process went down (crashed),    *)
(* the value the last call returned (ret) and what it handed to the        *)
(* renderer's init_buffer (handed).                                        *)
(* A pointer to memory is the number of bytes allocated at it, 0 for NULL. *)
(* _shm_image is [ptr |-> "NULL"], an XImage the server made, or           *)
(* [ptr |-> "WILD"]: the constructor initializes neither _shm_image nor    *)
(* _shm_info, so what they hold before the first create_shm_image is what  *)
(* the memory held, NULL or not.  Using a wild pointer ends the process.   *)
(* g.visual is the visual of the drawing area on the X server.  The        *)
(* answers to a call are x = [fails, realloc]: the step of                 *)
(* create_shm_image that fails ("none" if none does) and whether realloc   *)
(* gives memory.                                                           *)
(***************************************************************************)
NullImage == [ptr |-> "NULL"]
WildImage == [ptr |-> "WILD"]

\* decode_mask: the shift and the size of a colour mask
RECURSIVE mask_shift(_)
mask_shift(mask) ==
    IF mask = 0 \/ mask % 2 = 1 THEN 0 ELSE 1 + mask_shift(mask \div 2)
RECURSIVE mask_size(_)
mask_size(mask) ==
    IF mask = 0 THEN 0
    ELSE IF mask % 2 = 0 THEN mask_size(mask \div 2)
    ELSE 1 + (IF (mask \div 2) % 2 = 1 THEN mask_size(mask \div 2) ELSE 0)
decode_mask(mask) == [shift |-> mask_shift(mask), size |-> mask_size(mask)]

\* agg_detect_pixel_format of the AGG renderer: the name of the pixel
\* format of the masks and depth, "NULL" if it knows none
agg_detect_pixel_format(red, green, blue, bpp) ==
    IF bpp = 16 /\ red = [shift |-> 11, size |-> 5]
           /\ green = [shift |-> 5, size |-> 6]
           /\ blue = [shift |-> 0, size |-> 5] THEN "RGB565"
    ELSE IF bpp = 32 /\ red = [shift |-> 16, size |-> 8]
           /\ green = [shift |-> 8, size |-> 8]
           /\ blue = [shift |-> 0, size |-> 8] THEN "BGRA32"
    ELSE "NULL"

\* create_render_handler_agg of the AGG renderer: a renderer for the pixel
\* format if the renderer was compiled for it, NULL otherwise
create_render_handler_agg(pixelformat, compiled) ==
    IF pixelformat \in compiled THEN pixelformat ELSE "NULL"

\* XShmCreateImage: the image the server makes for a visual
XShmCreateImage(visual, width, height) ==
    [ptr |-> "XImage", width |-> width, height |-> height,
     bits_per_pixel |-> visual.bits_per_pixel,
     bytes_per_line |->
         ((width * visual.bits_per_pixel + 31) \div 32) * 4,
     red_mask |-> visual.red_mask, green_mask |-> visual.green_mask,
     blue_mask |-> visual.blue_mask]

\* GtkAggGlue::GtkAggGlue and GtkAggGlue::init
NewGlue(enable_mit_shm, rgb565, compiled, visual, have_shm, shm_image, shm_info) ==
    [ENABLE_MIT_SHM |-> enable_mit_shm, PIXELFORMAT_RGB565 |-> rgb565,
     compiled |-> compiled, visual |-> visual,
     _offscreenbuf |-> 0, _offscreenbuf_size |-> 0,
     _agg_renderer |-> "NULL", _width |-> 0, _height |-> 0,
     _bpp |-> IF rgb565 THEN 16 ELSE 24,
     _have_shm |-> enable_mit_shm /\ have_shm,
     _shm_image |-> IF enable_mit_shm THEN shm_image ELSE NullImage,
     _shm_info |-> IF enable_mit_shm THEN shm_info ELSE "NULL",
     crashed |-> FALSE, ret |-> "NULL", handed |-> <<>>]

destroy_shm_image(g) ==
    IF g.crashed \/ ~g.ENABLE_MIT_SHM THEN g
    ELSE IF g._shm_image.ptr = "WILD" \/ g._shm_info = "WILD"
    THEN [g EXCEPT !.crashed = TRUE]
    ELSE [g EXCEPT !._shm_image = NullImage, !._shm_info = "NULL"]

\* the statements of create_shm_image after destroy_shm_image()
create_shm_image_made(g, width, height, x) ==
    IF g.crashed \/ ~g.ENABLE_MIT_SHM THEN g
    ELSE IF x.fails # "none"
    THEN destroy_shm_image(
             [g EXCEPT !._shm_info = "XShmSegmentInfo",
                       !._shm_image =
                           IF x.fails = "XShmCreateImage" THEN NullImage
                           ELSE XShmCreateImage(g.visual, width, height)])
    ELSE [g EXCEPT !._shm_info = "XShmSegmentInfo",
                   !._shm_image =
                       XShmCreateImage(g.visual, width, height)]

create_shm_image(g, width, height, x) ==
    create_shm_image_made(destroy_shm_image(g), width, height, x)

\* the pixel format create_shm_handler detects from the image
detected_format(image) ==
    agg_detect_pixel_format(decode_mask(image.red_mask),
        decode_mask(image.green_mask), decode_mask(image.blue_mask),
        image.bits_per_pixel)

\* the statements of create_shm_handler after create_shm_image(256,256)
create_shm_handler_detect(g) ==
    IF g.crashed THEN g
    ELSE IF g._shm_image.ptr = "NULL" THEN [g EXCEPT !.ret = "NULL"]
    ELSE IF detected_format(g._shm_image) = "NULL"
    THEN [destroy_shm_image(g) EXCEPT !.ret = "NULL"]
    ELSE [destroy_shm_image(g) EXCEPT
              !.ret = create_render_handler_agg(
                          detected_format(g._shm_image), g.compiled),
              !._have_shm =
                  create_render_handler_agg(
                      detected_format(g._shm_image), g.compiled) # "NULL"]

create_shm_handler(g, x) ==
    IF ~g.ENABLE_MIT_SHM THEN [g EXCEPT !.ret = "NULL"]
    ELSE create_shm_handler_detect(create_shm_image(g, 256, 256, x))

\* the standard pixel format of the build
standard_format(g) == IF g.PIXELFORMAT_RGB565 THEN "RGB565" ELSE "RGB24"

\* a createRenderHandler that returns what create_shm_handler returned
createRenderHandler_after_noFallback(g) ==
    IF g.crashed THEN g ELSE [g EXCEPT !._agg_renderer = g.ret]

\* the statements of createRenderHandler after create_shm_handler()
createRenderHandler_after(g) ==
    IF g.crashed THEN g
    ELSE IF g.ret # "NULL" THEN [g EXCEPT !._agg_renderer = g.ret]
    ELSE [g EXCEPT
              !._agg_renderer =
                  create_render_handler_agg(standard_format(g), g.compiled),
              !.ret =
                  create_render_handler_agg(standard_format(g), g.compiled)]

createRenderHandler(g, x) ==
    IF g._have_shm
    THEN createRenderHandler_after(create_shm_handler(g, x))
    ELSE createRenderHandler_after([g EXCEPT !.ret = "NULL"])

CHUNK_SIZE(g) == 100 * 100 * (g._bpp \div 8)

\* the shared-memory branch of setRenderHandlerSize
setRenderHandlerSize_shm(g) ==
    IF g._shm_image.ptr = "WILD" \/ g._shm_info \in {"WILD", "NULL"}
    THEN [g EXCEPT !.crashed = TRUE, !._offscreenbuf = 0]
    ELSE [g EXCEPT
              !._offscreenbuf = 0,
              !.handed =
                  <<[buf |-> g._shm_image.bytes_per_line
                                 * g._shm_image.height,
                     size |-> g._shm_image.bytes_per_line
                                  * g._shm_image.height,
                     width |-> g._width, height |-> g._height]>>]

\* the standard-pixmap branch of setRenderHandlerSize
setRenderHandlerSize_standard(g, new_bufsize, x) ==
    IF new_bufsize > g._offscreenbuf_size
    THEN IF ~x.realloc THEN [g EXCEPT !._offscreenbuf = 0]
         ELSE [g EXCEPT
                   !._offscreenbuf =
                       (new_bufsize \div CHUNK_SIZE(g) + 1) * CHUNK_SIZE(g),
                   !._offscreenbuf_size =
                       (new_bufsize \div CHUNK_SIZE(g) + 1) * CHUNK_SIZE(g),
                   !.handed =
                       <<[buf |-> (new_bufsize \div CHUNK_SIZE(g) + 1)
                                      * CHUNK_SIZE(g),
                          size |-> (new_bufsize \div CHUNK_SIZE(g) + 1)
                                       * CHUNK_SIZE(g),
                          width |-> g._width, height |-> g._height]>>]
    ELSE [g EXCEPT
              !.handed = <<[buf |-> g._offscreenbuf,
                            size |-> g._offscreenbuf_size,
                            width |-> g._width, height |-> g._height]>>]

\* the statements of setRenderHandlerSize after create_shm_image
setRenderHandlerSize_buffer(g, x) ==
    IF g.crashed THEN g
    ELSE IF g.ENABLE_MIT_SHM /\ g._shm_image.ptr # "NULL"
    THEN setRenderHandlerSize_shm(g)
    ELSE setRenderHandlerSize_standard(
             g, g._width * g._height * (g._bpp \div 8), x)

setRenderHandlerSize(g, width, height, x) ==
    IF width = g._width /\ height = g._height
    THEN [g EXCEPT !.handed = <<>>]
    ELSE IF g._have_shm
    THEN setRenderHandlerSize_buffer(
             create_shm_image(
                 [g EXCEPT !._width = width, !._height = height,
                           !.handed = <<>>], width, height, x), x)
    ELSE setRenderHandlerSize_buffer(
             [g EXCEPT !._width = width, !._height = height,
                       !.handed = <<>>], x)

(***************************************************************************)
(* SpecGlue: a glue after its constructor and init(), in every build and   *)
(* on every memory, then any sequence of createRenderHandler and           *)
(* setRenderHandlerSize calls, the X server and the allocator answering    *)
(* each as they please.  last keeps the call, the glue before it and the   *)
(* answers.                                                                *)
(***************************************************************************)
Visuals ==
    {[bits_per_pixel |-> 16, red_mask |-> 63488, green_mask |-> 2016,
      blue_mask |-> 31],
     [bits_per_pixel |-> 32, red_mask |-> 16711680, green_mask |-> 65280,
      blue_mask |-> 255],
     [bits_per_pixel |-> 8, red_mask |-> 224, green_mask |-> 28,
      blue_mask |-> 3]}
ShmSteps == {"XShmCreateImage", "shmget", "shmat", "XShmAttach"}
XAnswers == [fails : ShmSteps \cup {"none"}, realloc : BOOLEAN]
Sizes == {<<100, 100>>, <<200, 200>>, <<50, 20>>}
Glues ==
    {NewGlue(e, r, c \cup {IF r THEN "RGB565" ELSE "RGB24"}, v, h, i, n) :
         e \in BOOLEAN, r \in BOOLEAN, c \in SUBSET {"RGB565", "BGRA32"},
         v \in Visuals, h \in BOOLEAN, i \in {NullImage, WildImage},
         n \in {"NULL", "WILD"}}

InitGlue ==
    /\ playlist = <<>>
    /\ timelineDepths = {}
    /\ dlist = <<>>
    /\ nextId = 0
    /\ stream = NoStream
    /\ date = NoDate
    /\ glue \in Glues
    /\ last = [op |-> "new", before |-> <<>>, x |-> <<>>, args |-> <<>>]

CreateRenderHandler ==
    /\ ~glue.crashed
    /\ \E x \in XAnswers :
         /\ glue' = createRenderHandler(glue, x)
         /\ last' = [op |-> "createRenderHandler", before |-> glue,
                     x |-> x, args |-> <<>>]
    /\ UNCHANGED <<playlist, timelineDepths, dlist, nextId, stream, date>>

SetRenderHandlerSize ==
    /\ ~glue.crashed
    /\ glue._agg_renderer # "NULL"
    /\ \E x \in XAnswers, s \in Sizes :
         /\ glue' = setRenderHandlerSize(glue, s[1], s[2], x)
         /\ last' = [op |-> "setRenderHandlerSize", before |-> glue,
                     x |-> x, args |-> s]
    /\ UNCHANGED <<playlist, timelineDepths, dlist, nextId, stream, date>>

NextGlue == CreateRenderHandler \/ SetRenderHandlerSize

SpecGlue == InitGlue /\ [][NextGlue]_vars

(***************************************************************************)
(* Properties.  last records the step just taken: for a load the tag read  *)
(* (in), whether read() threw (thrown), the tag as read (t), the highest   *)
(* position read plus one (hi) and the execute list before (queued); for   *)
(* an execute the tag (t) and the display list before (before).            *)
(***************************************************************************)
Loaded2 == last.op = "loader" /\ last.in.tag # "PLACEOBJECT"
FlagByte == last.in.data[1]
Executed(type) == last.op = "execute" /\ last.t.m_place_type = type
InDict(t) == t.m_character_id \in CharacterDict
AtDepth(dl, depth) == {dl[i] : i \in {j \in DOMAIN dl : dl[j].depth = depth}}
NotAtDepth(dl, depth) ==
    {dl[i] : i \in {j \in DOMAIN dl : dl[j].depth # depth}}
\* the instance a record describes, but for its identity
Describes(t, e) ==
    /\ e.depth = t.m_depth
    /\ e.character_id = t.m_character_id
    /\ e.name = t.m_name
    /\ e.cxform = t.m_color_transform
    /\ e.matrix = t.m_matrix
    /\ e.ratio = t.m_ratio
    /\ e.clip_depth = t.m_clip_depth
    /\ e.events = t.m_event_handlers

\* C1: an extended tag that was read has the place type its has_char and
\* move flags select: (1,0) PLACE, (1,1) REPLACE, (0,1) MOVE, (0,0) REMOVE,
\* whatever the other six flags are.
C1_PlaceTypeTable ==
    (Loaded2 /\ ~last.thrown) =>
        /\ (Bit(FlagByte, 1) /\ ~Bit(FlagByte, 0))
               => last.t.m_place_type = "PLACE"
        /\ (Bit(FlagByte, 1) /\ Bit(FlagByte, 0))
               => last.t.m_place_type = "REPLACE"
        /\ (~Bit(FlagByte, 1) /\ Bit(FlagByte, 0))
               => last.t.m_place_type = "MOVE"
        /\ (~Bit(FlagByte, 1) /\ ~Bit(FlagByte, 0))
               => last.t.m_place_type = "REMOVE"

\* a tag with every flag set was read, and is a REPLACE
C1_Witness ==
    /\ Loaded2 /\ ~last.thrown
    /\ FlagByte = 255
    /\ last.t.m_place_type = "REPLACE"
    /\ Len(last.t.m_event_handlers) = 1

\* C2: the display list never holds two instances at one depth.
C2_OnePerDepth ==
    \A i, j \in DOMAIN dlist : dlist[i].depth = dlist[j].depth => i = j

\* a PLACE was executed on an occupied depth, beside another depth
C2_Witness ==
    /\ Executed("PLACE") /\ InDict(last.t)
    /\ AtDepth(last.before, last.t.m_depth) # {}
    /\ Len(dlist) = 2

\* C3: a PLACE of a known character on an occupied depth leaves one
\* instance there, a new one, which has the character and the fields of
\* the record placed and nothing of the instance it displaced.
C3_PlaceOverwrites ==
    (Executed("PLACE") /\ InDict(last.t)
        /\ AtDepth(last.before, last.t.m_depth) # {}) =>
        /\ Cardinality(AtDepth(dlist, last.t.m_depth)) = 1
        /\ \A e \in AtDepth(dlist, last.t.m_depth) :
               /\ Describes(last.t, e)
               /\ \A o \in AtDepth(last.before, last.t.m_depth) :
                      e.id # o.id

\* character 2 without any field was placed over an instance of
\* character 1 that had a matrix, a name and event handlers
C3_Witness ==
    /\ Executed("PLACE") /\ last.t.m_character_id = 2
    /\ ~last.t.m_has_matrix /\ last.t.m_event_handlers = <<>>
    /\ \E o \in AtDepth(last.before, last.t.m_depth) :
           /\ o.character_id = 1 /\ o.matrix = 1
           /\ o.name # <<>> /\ o.events # <<>>
    /\ \E e \in AtDepth(dlist, last.t.m_depth) :
           e.character_id = 2 /\ e.matrix = 0 /\ e.events = <<>>

\* C4: when read() throws, the loader leaves the execute list, the
\* display list and the instance counter as they were.
C4_TruncatedTagDiscarded ==
    (last.op = "loader" /\ last.thrown) =>
        /\ playlist = last.queued
        /\ dlist = last.before

\* a tag was cut inside its fields, after instances had been placed
C4_Witness ==
    /\ last.op = "loader" /\ last.thrown
    /\ last.hi > 2 /\ last.hi = last.in.end
    /\ Len(dlist) = 2

\* C5: a MOVE, REPLACE or REMOVE on a depth without an instance leaves the
\* display list as it was.
C5_StaleDepthIsNoOp ==
    ((Executed("MOVE") \/ Executed("REPLACE") \/ Executed("REMOVE"))
        /\ AtDepth(last.before, last.t.m_depth) = {}) =>
        dlist = last.before

\* a REPLACE by a known character was executed on an empty depth while
\* another depth held an instance
C5_Witness ==
    /\ Executed("REPLACE") /\ InDict(last.t)
    /\ AtDepth(last.before, last.t.m_depth) = {}
    /\ Len(last.before) = 1

\* C6: executing a tag leaves every instance at another depth than the
\* tag's as it was.
C6_OtherDepthsUntouched ==
    last.op = "execute" =>
        NotAtDepth(dlist, last.t.m_depth)
            = NotAtDepth(last.before, last.t.m_depth)

\* a MOVE with a clip depth changed the instance at its depth while the
\* depth its clip depth names held an instance
C6_Witness ==
    /\ Executed("MOVE")
    /\ last.t.m_clip_depth # noClipDepthValue
    /\ AtDepth(last.before, last.t.m_clip_depth) # {}
    /\ AtDepth(dlist, last.t.m_depth) # AtDepth(last.before, last.t.m_depth)

\* C7: a MOVE on an occupied depth keeps the instance, its character, name
\* and event handlers, and sets matrix, color transform, ratio and clip
\* depth exactly when the record has them (m_has_matrix, m_has_cxform, a
\* ratio or clip depth other than the "none" value).
C7_MoveUpdatesPresentFields ==
    Executed("MOVE") =>
        \A o \in AtDepth(last.before, last.t.m_depth) :
            AtDepth(dlist, last.t.m_depth) =
                {[o EXCEPT
                    !.matrix = IF last.t.m_has_matrix
                               THEN last.t.m_matrix ELSE @,
                    !.cxform = IF last.t.m_has_cxform
                               THEN last.t.m_color_transform ELSE @,
                    !.ratio = IF last.t.m_ratio # noRatioValue
                              THEN last.t.m_ratio ELSE @,
                    !.clip_depth = IF last.t.m_clip_depth # noClipDepthValue
                                   THEN last.t.m_clip_depth ELSE @]}

\* a MOVE with a matrix only was executed on an instance that had a color
\* transform, a ratio and no matrix: the matrix is set, the rest is kept
C7_Witness ==
    /\ Executed("MOVE")
    /\ last.t.m_has_matrix /\ ~last.t.m_has_cxform
    /\ last.t.m_ratio = noRatioValue
    /\ \E o \in AtDepth(last.before, last.t.m_depth) :
           o.matrix = 0 /\ o.cxform = 1 /\ o.ratio = 7
    /\ \E e \in AtDepth(dlist, last.t.m_depth) :
           e.matrix = 1 /\ e.cxform = 1 /\ e.ratio = 7

\* C8: the instance a REPLACE of a known character puts at an occupied
\* depth is the one a PLACE of the same record makes: character, name,
\* color transform, matrix, ratio, clip depth and event handlers.
C8_ReplaceBuildsAsPlace ==
    (Executed("REPLACE") /\ InDict(last.t)
        /\ AtDepth(last.before, last.t.m_depth) # {}) =>
        \A e \in AtDepth(dlist, last.t.m_depth) : Describes(last.t, e)

\* a REPLACE whose record has event handlers put a new instance at an
\* occupied depth
C8_Witness ==
    /\ Executed("REPLACE") /\ InDict(last.t)
    /\ last.t.m_event_handlers # <<>>
    /\ \E o \in AtDepth(last.before, last.t.m_depth) :
           \E e \in AtDepth(dlist, last.t.m_depth) : e.id # o.id

\* C9: a REPLACE on an occupied depth leaves exactly one instance at that
\* depth, the one that was there or a new one; the depth is not seen
\* empty.
C9_ReplaceKeepsDepthOccupied ==
    (Executed("REPLACE") /\ AtDepth(last.before, last.t.m_depth) # {}) =>
        /\ Cardinality(AtDepth(dlist, last.t.m_depth)) = 1
        /\ \A e \in AtDepth(dlist, last.t.m_depth) :
               \/ e \in AtDepth(last.before, last.t.m_depth)
               \/ /\ e.character_id = last.t.m_character_id
                  /\ \A i \in DOMAIN last.before :
                         e.id # last.before[i].id

\* a REPLACE put a new instance of another character at an occupied depth
C9_Witness ==
    /\ Executed("REPLACE") /\ InDict(last.t)
    /\ \E o \in AtDepth(last.before, last.t.m_depth) :
           /\ o.character_id # last.t.m_character_id
           /\ \E e \in AtDepth(dlist, last.t.m_depth) :
                  e.id # o.id /\ e.character_id = last.t.m_character_id

\* C10: reading a tag, of any variant and cut anywhere, takes no byte from
\* a position at or after the tag's end, and a tag that was read to its
\* end without a throw was read from positions before the end only.
C10_NoReadPastTagEnd ==
    last.op = "loader" => last.hi <= last.in.end

\* read() threw at the end of a tag cut inside its event table, after an
\* event handler had been registered
C10_Witness ==
    /\ last.op = "loader" /\ last.thrown
    /\ last.hi = last.in.end
    /\ Len(last.t.m_event_handlers) >= 1

(***************************************************************************)
(* Properties of the event loop, stated on last.log: one entry for each    *)
(* pass, in the order of the passes.                                       *)
(***************************************************************************)
Passes == {last.log[i] : i \in DOMAIN last.log}
\* the pass read its action: the length passed the check against the tag end
ActionRead(e) ==
    ~e.thrown /\ e.stage \in {"exact", "skipped", "longer", "skip_failed"}
\* the pass went through to the registration of its events
Registered(e) == ~e.thrown /\ e.stage \in {"exact", "skipped"}
HasKey(e) == WordBit(e.flags, 17)
\* the 32 bit word w is the integer n
WordIsInt(w, n) == w.hi < 32768 /\ w.lo + 65536 * w.hi = n
\* a declared length that passed the check, as an integer
Declared(e) == e.declared.lo + 65536 * e.declared.hi

\* C11: the action captured for an event record whose declared length
\* passed the check against the tag end is as long as the declared length,
\* less one if the record has a key code.
C11_CapturedLengthIsDeclared ==
    \A e \in Passes :
        ActionRead(e) =>
            WordIsInt(e.declared, e.readlen + IF HasKey(e) THEN 1 ELSE 0)

\* a record of declared length 3 was registered with an action of 1 byte
C11_Witness ==
    \E e \in Passes :
        /\ Registered(e) /\ ~HasKey(e)
        /\ Declared(e) = 3 /\ e.readlen = 1
        /\ Len(e.regs) = 1
        /\ e.regs[1].action = ActionBuffer(e.start, 1)

\* C12: an event record with bit 17 set and declared length L has one key
\* code byte read and L - 1 bytes left for its action, and its KEY_PRESS
\* event has that key code; a record without bit 17 has no key code byte
\* read and L bytes left for its action.
C12_KeyPressBudget ==
    \A e \in Passes :
        ActionRead(e) =>
            IF HasKey(e)
            THEN /\ e.start = e.after_len + 1
                 /\ WordIsInt(e.budget, Declared(e) - 1)
                 /\ \A i \in DOMAIN e.regs :
                        e.regs[i].event = "KEY_PRESS" =>
                            e.regs[i].keyCode = last.in.data[e.after_len + 1]
            ELSE /\ e.start = e.after_len
                 /\ WordIsInt(e.budget, Declared(e))

\* a record with bit 17 set and declared length 0 had its key code read
\* and was left with 2^32 - 1 bytes for its action
C12_Witness ==
    \E e \in Passes :
        /\ ActionRead(e) /\ HasKey(e)
        /\ e.declared = Word(0, 0)
        /\ e.start = e.after_len + 1
        /\ e.budget = Word(65535, 65535)

\* the event kinds of the known bits set in a flag word, lowest bit first
KnownKinds(flags) ==
    LET bits == SelectSeq([i \in 1 .. total_known_events |-> i - 1],
                          LAMBDA b : WordBit(flags, b))
    IN  [k \in DOMAIN bits |-> s_code_bits[bits[k] + 1]]

\* C13: an event record that was read registers one event for each of the
\* bits 0..18 set in its flag word, lowest bit first, of the kind
\* s_code_bits has for the bit; a bit from 19 up registers nothing, and the
\* loop goes on to the next record after it.
C13_OneRegistrationPerKnownBit ==
    \A i \in DOMAIN last.log :
        Registered(last.log[i]) =>
            /\ [k \in DOMAIN last.log[i].regs |-> last.log[i].regs[k].event]
                   = KnownKinds(last.log[i].flags)
            /\ i < Len(last.log)

\* a record with bits 1 and 19 registered ENTER_FRAME alone, the record
\* after it, with bit 20 alone, registered nothing, and the third record
\* registered UNLOAD
C13_Witness ==
    /\ Len(last.log) = 4
    /\ Registered(last.log[1]) /\ last.log[1].flags = Word(2, 8)
    /\ Len(last.log[1].regs) = 1
    /\ last.log[1].regs[1].event = "ENTER_FRAME"
    /\ Registered(last.log[2]) /\ last.log[2].flags = Word(0, 16)
    /\ last.log[2].regs = <<>>
    /\ Registered(last.log[3]) /\ Len(last.log[3].regs) = 1
    /\ last.log[3].regs[1].event = "UNLOAD"
    /\ Len(last.t.m_event_handlers) = 2

\* C14: the events registered for a record with two or more known bits all
\* hold the one action buffer read for the record, the last as the first.
C14_RegistrationsShareTheBuffer ==
    \A e \in Passes :
        (Registered(e) /\ Len(e.regs) >= 2) =>
            \A k \in DOMAIN e.regs :
                e.regs[k].action = ActionBuffer(e.start, e.readlen)

\* a record with three known bits registered three events: the first holds
\* the buffer, the last holds none
C14_Witness ==
    \E e \in Passes :
        /\ Registered(e) /\ Len(e.regs) = 3
        /\ e.regs[1].action = ActionBuffer(e.start, e.readlen)
        /\ e.regs[3].action = <<>>

\* the pass read its flag word; it read its length field
FlagsRead(e) == e.stage # "begin"
LengthRead(e) == e.stage \notin {"begin", "flags", "end"}

\* C15: when the declared length of an event record is more than the bytes
\* left before the tag end, nothing is read after the length field, the
\* record registers nothing, the loop ends with it and read() returns.
C15_LengthBeyondTagEndStops ==
    \A i \in DOMAIN last.log :
        (/\ LengthRead(last.log[i])
         /\ IntLessWord(last.in.end - last.log[i].after_len,
                        last.log[i].declared)) =>
            /\ last.log[i].to = last.log[i].after_len
            /\ last.hi = last.log[i].after_len
            /\ last.log[i].regs = <<>>
            /\ i = Len(last.log)
            /\ ~last.thrown

\* after a record that registered two events, a record declared 2 bytes
\* long with 1 byte left before the tag end stopped the loop
C15_Witness ==
    /\ Len(last.log) = 2
    /\ Registered(last.log[1]) /\ Len(last.log[1].regs) = 2
    /\ LengthRead(last.log[2])
    /\ last.log[2].declared = Word(2, 0)
    /\ last.in.end - last.log[2].after_len = 1
    /\ last.log[2].to = last.log[2].after_len
    /\ Len(last.t.m_event_handlers) = 2
    /\ ~last.thrown

\* C16: after an event record was registered the cursor is at the position
\* after the length field plus the declared length, also when the action
\* read was shorter than declared, and the next pass of the loop starts
\* there.
C16_DeclaredLengthConsumed ==
    \A i \in DOMAIN last.log :
        Registered(last.log[i]) =>
            /\ last.log[i].to
                   = last.log[i].after_len + Declared(last.log[i])
            /\ i < Len(last.log)
            /\ last.log[i + 1].at = last.log[i].to

\* a record declared 3 bytes long whose action was 1 byte long was
\* registered, and the record 3 bytes after its length field as well
C16_Witness ==
    /\ Len(last.log) = 3
    /\ Registered(last.log[1])
    /\ Declared(last.log[1]) = 3 /\ last.log[1].readlen = 1
    /\ last.log[2].at = last.log[1].after_len + 3
    /\ Registered(last.log[2]) /\ Len(last.log[2].regs) = 1

\* the flag word of 2 or 4 bytes found at position p of the tag read
FlagWordAt(p) ==
    Word(last.in.data[p + 1] + 256 * last.in.data[p + 2],
         IF last.in.version >= 6
         THEN last.in.data[p + 3] + 256 * last.in.data[p + 4] ELSE 0)
FlagWordSize == IF last.in.version >= 6 THEN 4 ELSE 2

\* C17: each pass of the event loop reads its flag word from 4 bytes when
\* the version is 6 or more and from 2 bytes otherwise; a flag word of zero
\* ends the loop with nothing read after it; below version 6 only the
\* events of bits 0..15 are registered.
C17_FlagWordWidthAndEnd ==
    \A i \in DOMAIN last.log :
        FlagsRead(last.log[i]) =>
            /\ last.log[i].flags = FlagWordAt(last.log[i].at)
            /\ IF WordIsZero(last.log[i].flags)
               THEN /\ last.log[i].to = last.log[i].at + FlagWordSize
                    /\ last.hi = last.log[i].to
                    /\ last.log[i].regs = <<>>
                    /\ i = Len(last.log)
                    /\ ~last.thrown
               ELSE LengthRead(last.log[i]) =>
                        last.log[i].after_len
                            = last.log[i].at + FlagWordSize + 4
            /\ last.in.version < 6 =>
                   \A k \in DOMAIN last.log[i].regs :
                       \E b \in 1 .. 16 :
                           last.log[i].regs[k].event = s_code_bits[b]

\* in a tag of version 5 a flag word of 2 bytes registered PRESS (bit 10)
\* and the flag word of 2 zero bytes after it ended the loop
C17_Witness ==
    /\ last.in.version = 5
    /\ Len(last.log) = 3
    /\ Registered(last.log[2])
    /\ last.log[2].after_len = last.log[2].at + 6
    /\ Len(last.log[2].regs) = 1 /\ last.log[2].regs[1].event = "PRESS"
    /\ WordIsZero(last.log[3].flags) /\ FlagsRead(last.log[3])
    /\ last.log[3].to = last.log[3].at + 2
    /\ ~last.thrown

(***************************************************************************)
(* Properties of the fields read, stated on last.reads: the fields in the  *)
(* order they were read, each with the positions it was read from and to.  *)
(***************************************************************************)
ReadNames(reads) == [k \in DOMAIN reads |-> reads[k].what]
U16At(p) == last.in.data[p + 1] + 256 * last.in.data[p + 2]
\* the optional fields of the extended variants with the bit of the first
\* flag byte that announces each, in the order of the format
FieldOrder ==
    <<[what |-> "character_id", bit |-> 1], [what |-> "matrix", bit |-> 2],
      [what |-> "cxform_rgba", bit |-> 3], [what |-> "ratio", bit |-> 4],
      [what |-> "name", bit |-> 5], [what |-> "clip_depth", bit |-> 6]>>
ExpectedFields ==
    <<"depth">> \o ReadNames(SelectSeq(FieldOrder,
                                       LAMBDA x : Bit(FlagByte, x.bit)))
FieldReads ==
    SelectSeq(last.reads,
              LAMBDA r : r.what = "depth" \/
                         \E k \in DOMAIN FieldOrder : FieldOrder[k].what = r.what)

\* C18: in an extended tag the fields read after the flags are the depth
\* and then, in the order character id, matrix, RGBA color transform,
\* ratio, name, clip depth, those and only those whose flag bit is set,
\* each read where the one before it ended; a tag read without has_ratio
\* has the "no ratio" value and one read without has_clip_bracket has the
\* "no clip depth" value.
C18_FieldsGatedByFlagsInOrder ==
    Loaded2 =>
        /\ Len(FieldReads) <= Len(ExpectedFields)
        /\ ~last.thrown => Len(FieldReads) = Len(ExpectedFields)
        /\ \A k \in DOMAIN FieldReads :
               FieldReads[k].what = ExpectedFields[k]
        /\ \A k \in DOMAIN last.reads :
               last.reads[k].at = IF k = 1 THEN 0 ELSE last.reads[k - 1].to
        /\ \A k \in DOMAIN FieldReads :
               /\ FieldReads[k].what = "depth" =>
                      last.t.m_depth
                          = U16At(FieldReads[k].at) + staticDepthOffset
               /\ FieldReads[k].what = "character_id" =>
                      last.t.m_character_id = U16At(FieldReads[k].at)
               /\ FieldReads[k].what = "ratio" =>
                      last.t.m_ratio = U16At(FieldReads[k].at)
               /\ FieldReads[k].what = "clip_depth" =>
                      last.t.m_clip_depth
                          = U16At(FieldReads[k].at) + staticDepthOffset
        /\ ~last.thrown =>
               /\ ~Bit(FlagByte, 4) => last.t.m_ratio = noRatioValue
               /\ ~Bit(FlagByte, 6) => last.t.m_clip_depth = noClipDepthValue
               /\ last.t.m_has_matrix = Bit(FlagByte, 2)
               /\ last.t.m_has_cxform = Bit(FlagByte, 3)
               /\ ~Bit(FlagByte, 5) => last.t.m_name = <<>>

\* a tag with has_char, has_matrix, has_ratio and has_clip_bracket, without
\* has_cxform and has_name, was read: four optional fields in their order
C18_Witness ==
    /\ Loaded2 /\ ~last.thrown
    /\ FlagByte = 86
    /\ ReadNames(last.reads)
           = <<"flags", "depth", "character_id", "matrix", "ratio",
               "clip_depth">>
    /\ last.t.m_ratio = 7 /\ last.t.m_name = <<>>
    /\ ~last.t.m_has_cxform

WasRead(what) == \E k \in DOMAIN last.reads : last.reads[k].what = what
SecondByteDue == last.in.tag = "PLACEOBJECT3" /\ last.in.version >= 8

\* C19: the second flag byte is read, right after the first, in a
\* PLACEOBJECT3 tag of version 8 or more and in no other tag; where it is
\* not read the depth is read right after the first flag byte and no
\* filter list, blend mode or bitmap caching byte is read; where it is
\* read, each of these is read when its bit (0, 1, 2) is set.
C19_SecondFlagByteGate ==
    (Loaded2 /\ Len(last.reads) >= 2) =>
        /\ last.reads[1].what = "flags" /\ last.reads[1].to = 1
        /\ last.reads[2].at = 1
        /\ IF SecondByteDue
           THEN /\ last.reads[2].what = "flags2" /\ last.reads[2].to = 2
                /\ Len(last.reads) >= 3 => last.reads[3].what = "depth"
                /\ ~last.thrown =>
                       /\ WasRead("filters") = Bit(last.in.data[2], 0)
                       /\ WasRead("blend_mode") = Bit(last.in.data[2], 1)
                       /\ WasRead("bitmask") = Bit(last.in.data[2], 2)
           ELSE /\ last.reads[2].what = "depth"
                /\ ~WasRead("flags2")
                /\ ~WasRead("filters")
                /\ ~WasRead("blend_mode")
                /\ ~WasRead("bitmask")

\* a PLACEOBJECT3 tag of version 7 was read to its end: the depth comes
\* right after the first flag byte
C19_Witness ==
    /\ last.op = "loader" /\ ~last.thrown
    /\ last.in.tag = "PLACEOBJECT3" /\ last.in.version = 7
    /\ FlagByte = 255
    /\ last.reads[2].what = "depth" /\ last.reads[2].at = 1
    /\ last.t.m_depth = 1 + staticDepthOffset
    /\ Len(last.t.m_event_handlers) = 1

\* C20: in a PLACEOBJECT tag the RGB color transform is read after the
\* character id, the depth and the matrix when the position is before the
\* tag end, and only then; with the position at the tag end none is read
\* and read() returns.
C20_LegacyCxformByPosition ==
    (last.op = "loader" /\ last.in.tag = "PLACEOBJECT"
        /\ Len(last.reads) >= 3) =>
        /\ ReadNames(SubSeq(last.reads, 1, 3))
               = <<"character_id", "depth", "matrix">>
        /\ last.reads[1].at = 0
        /\ last.reads[2].at = last.reads[1].to
        /\ last.reads[3].at = last.reads[2].to
        /\ IF last.reads[3].to < last.in.end
           THEN /\ Len(last.reads) = 4
                /\ last.reads[4].what = "cxform_rgb"
                /\ last.reads[4].at = last.reads[3].to
           ELSE /\ Len(last.reads) = 3
                /\ last.t.m_color_transform = 0
                /\ ~last.thrown

\* a PLACEOBJECT tag that ends right after its matrix, with a byte of the
\* next tag behind it, was read without a color transform
C20_Witness ==
    /\ last.op = "loader" /\ last.in.tag = "PLACEOBJECT" /\ ~last.thrown
    /\ Len(last.reads) = 3
    /\ last.reads[3].what = "matrix" /\ last.reads[3].to = last.in.end
    /\ Len(last.in.data) > last.in.end
    /\ last.in.data[last.in.end + 1] = 1
    /\ last.t.m_color_transform = 0

\* the raw 16-bit depth of the tag read, as its bytes have it
RawDepth ==
    U16At(last.reads[CHOOSE k \in DOMAIN last.reads :
                         last.reads[k].what = "depth"].at)
InTimelineRange(depth) == staticDepthOffset <= depth /\ depth < 0

\* C21: a tag that was read is added to the execute list whatever its
\* depth, and its depth (the raw 16-bit depth plus staticDepthOffset) is
\* registered with the timeline depths exactly when it lies in
\* staticDepthOffset <= depth < 0.
C21_TimelineDepthRegisteredInRange ==
    (last.op = "loader" /\ ~last.thrown) =>
        /\ playlist = Append(last.queued, last.t)
        /\ last.t.m_depth = RawDepth + staticDepthOffset
        /\ timelineDepths = IF InTimelineRange(RawDepth + staticDepthOffset)
                            THEN {RawDepth + staticDepthOffset}
                            ELSE {}

\* a tag of raw depth 16384, the first depth after the timeline range, was
\* read and added to the execute list, and its depth was not registered
C21_Witness ==
    /\ last.op = "loader" /\ ~last.thrown
    /\ RawDepth = 16384 /\ last.t.m_depth = 0
    /\ playlist = <<last.t>>
    /\ timelineDepths = {}

\* C22: a PLACE of a character the dictionary does not have leaves the
\* display list as it was, with every instance placed before, and takes
\* the record off the execute list so that the next record is executed
\* next.
C22_UnknownCharacterSkipped ==
    (Executed("PLACE") /\ ~InDict(last.t)) =>
        /\ dlist = last.before
        /\ playlist = Tail(last.queued)
        /\ \A i \in DOMAIN dlist : dlist[i].id < nextId

\* character 3, which the dictionary does not have, was placed on a depth
\* that held an instance of character 2 while another depth held one too
C22_Witness ==
    /\ Executed("PLACE") /\ last.t.m_character_id = 3
    /\ Len(last.before) = 2
    /\ \E o \in AtDepth(last.before, last.t.m_depth) : o.character_id = 2
    /\ dlist = last.before

\* every tag of the file was handed to the loader
AllDecoded == stream.pos = Len(stream.tags)
\* the tag at place i of the file was executed, as the record read from it
Applied(i) ==
    \E k \in DOMAIN stream.applied :
        stream.applied[k] = stream.tags[i].read.t
\* the tag at place i comes after a malformed tag
AfterMalformed(i) ==
    \E j \in 1 .. i - 1 : stream.tags[j].in \in MalformedTags

\* the file was read to its last tag, nothing is left to execute, and the
\* well-formed tags after a malformed one were executed
StreamDone ==
    /\ AllDecoded
    /\ playlist = <<>>
    /\ \A i \in DOMAIN stream.tags :
           (AfterMalformed(i) /\ stream.tags[i].in \in WellFormedTags)
               => Applied(i)

\* C23: whatever malformed tags a file has (cut short, an event length
\* beyond the tag end, unknown event bits, a reserved field that is not 0,
\* a depth beyond the timeline range), the file is read to its last tag,
\* and every well-formed tag that comes after a malformed one is executed.
C23_StreamNeverAborts == <>[]StreamDone

\* a file of a cut tag, a tag with an event length beyond its end and a
\* well-formed move was read to its end: the loader threw on the first,
\* and the second and the third were executed
C23_Witness ==
    /\ AllDecoded /\ Len(stream.tags) >= 3
    /\ stream.tags[1].in = StreamTagCut(6, 1, 2, 5)
    /\ stream.tags[2].in
           = ActionsTag(EventTable(7, EventRecord(7, 2, 200, <<0>>)))
    /\ stream.tags[3].in = StreamTag(5, 1, 1)
    /\ Len(stream.applied) = 2
    /\ stream.applied[2] = decode(StreamTag(5, 1, 1)).t
    /\ last.op = "execute"

\* the fields of a broken-down time are those of a time of a day of a
\* month of the calendar
InCalendarRange(gt) ==
    /\ gt.month \in 0 .. 11
    /\ gt.monthday \in 1 .. 31
    /\ gt.month \in 0 .. 11 =>
           gt.monthday <= daysInMonth[IS_LEAP_YEAR(gt.year)][gt.month + 1]
    /\ gt.weekday \in 0 .. 6
    /\ gt.hour \in 0 .. 23
    /\ gt.minute \in 0 .. 59
    /\ gt.second \in 0 .. 59
    /\ gt.millisecond \in 0 .. 999

\* C25: the broken-down time a getter computes from a finite value, before
\* or after 1 Jan 1970, has month 0..11, a day of the month from 1 to the
\* length of the month, weekday 0..6, hour 0..23, minute and second 0..59
\* and millisecond 0..999.
C25_FieldsInRange == last.op = "get" => InCalendarRange(last.gt)

\* the getter was called on the value of 2147483647 days: days + 4 wrapped
\* around and the weekday is -6
C25_Witness ==
    /\ last.op = "get"
    /\ last.before = [neg |-> FALSE, days |-> INT32_MAX, ms |-> 0,
                      frac |-> FALSE]
    /\ last.gt.weekday = -6
    /\ last.gt.month \in 0 .. 11 /\ last.gt.hour = 0

\* C26: setHours() called with the hour the date has leaves the value of
\* the date as it was: the value broken down and put together again is the
\* value.
C26_ResetKeepsDate ==
    (last.op = "setHours" /\ last.arg = last.gt.hour) =>
        date.value = last.before

\* setHours(0) was called on 1 Jan 2069 0:00:00.000 and the date is
\* 31 Dec 2068 0:00:00.000
C26_Witness ==
    /\ last.op = "setHours" /\ last.arg = 0
    /\ last.gt = [millisecond |-> 0, second |-> 0, minute |-> 0,
                  hour |-> 0, monthday |-> 1, weekday |-> 2, month |-> 0,
                  year |-> 169]
    /\ last.before = TimeOf(36160, 0)
    /\ date.value = TimeOf(36159, 0)

\* create_shm_handler returns NULL: a step of create_shm_image fails, the
\* pixel format of the image is not recognized, or no renderer for it
ShmHandlerFails(g, x) ==
    \/ ~g.ENABLE_MIT_SHM
    \/ x.fails # "none"
    \/ detected_format(XShmCreateImage(g.visual, 256, 256)) = "NULL"
    \/ detected_format(XShmCreateImage(g.visual, 256, 256)) \notin g.compiled

C30_HandedBufferValid ==
    /\ (last.op = "setRenderHandlerSize" /\ glue.handed # <<>>) =>
           /\ glue.handed[1].buf # 0
           /\ glue.handed[1].size >=
                  glue._width * glue._height * (glue._bpp \div 8)
           /\ glue.handed[1].size <= glue.handed[1].buf
    /\ (last.op # "new" /\ ~glue.crashed) =>
           glue._offscreenbuf_size <= glue._offscreenbuf

\* a standard-pixmap call that hands the renderer a NULL buffer of a
\* recorded size that is not 0
C30_Witness ==
    /\ last.op = "setRenderHandlerSize"
    /\ last.before._shm_info = "XShmSegmentInfo"
    /\ last.x.fails = "shmget"
    /\ glue.handed # <<>>
    /\ glue.handed[1].buf = 0
    /\ glue.handed[1].size > 0

\* the 32 bit word a is not larger than the 32 bit word b
WordLeq(a, b) == a.hi < b.hi \/ (a.hi = b.hi /\ a.lo <= b.lo)

\* C27: the budget left for the action of an event record after the key
\* code deduction is never larger than the declared length, and a record
\* with bit 17 set and declared length 0 has no byte consumed after its
\* length field.
C27_BudgetWithinDeclared ==
    \A e \in Passes :
        ActionRead(e) =>
            /\ WordLeq(e.budget, e.declared)
            /\ (HasKey(e) /\ WordIsZero(e.declared)) => e.to = e.after_len

\* a record with bit 17 set and declared length 0 was left with a budget
\* of 2^32 - 1 and had its key code and an action of 1 byte consumed
C27_Witness ==
    \E e \in Passes :
        /\ ActionRead(e) /\ HasKey(e)
        /\ WordIsZero(e.declared)
        /\ ~WordLeq(e.budget, e.declared)
        /\ e.readlen = 1
        /\ e.to = e.after_len + 2

\* the pass left the loop at the check of the action against its budget
StoppedAtCheck(e) == ~e.thrown /\ e.stage \in {"longer", "skip_failed"}
\* the events registered by the first n passes, in order
RECURSIVE RegsUpTo(_)
RegsUpTo(n) == IF n = 0 THEN <<>> ELSE RegsUpTo(n - 1) \o last.log[n].regs

\* C28: when the action read for an event record is longer than its budget,
\* or the skip of the bytes after a shorter action is refused, the record
\* registers nothing and the loop ends with it; the tag keeps the events of
\* the records before it, gets the place type of its has_char and move
\* flags and is added to the execute list.
C28_StopAtCheckKeepsEarlier ==
    \A i \in DOMAIN last.log :
        (last.op = "loader" /\ StoppedAtCheck(last.log[i])) =>
            /\ last.log[i].regs = <<>>
            /\ i = Len(last.log)
            /\ ~last.thrown
            /\ last.t.m_event_handlers = RegsUpTo(i - 1)
            /\ last.t.m_place_type =
                   IF Bit(FlagByte, 1)
                   THEN IF Bit(FlagByte, 0) THEN "REPLACE" ELSE "PLACE"
                   ELSE IF Bit(FlagByte, 0) THEN "MOVE" ELSE "REMOVE"
            /\ playlist # <<>>
            /\ playlist[Len(playlist)] = last.t

\* after a record that registered an event, a record whose action was
\* longer than declared stopped the loop, and the tag was queued with the
\* one event
C28_Witness ==
    /\ last.op = "loader"
    /\ Len(last.log) = 2
    /\ Registered(last.log[1]) /\ Len(last.log[1].regs) >= 1
    /\ last.log[2].stage = "longer"
    /\ last.log[2].readlen > Declared(last.log[2])
    /\ last.t.m_event_handlers = last.log[1].regs
    /\ playlist = <<last.t>>

\* C29: the event loop ends on every tag: a pass either is the last one,
\* left at a zero flag word, at a declared length beyond the tag end, at an
\* action longer than its budget, at a refused skip or by a failed read,
\* or it registers its record and the next pass starts at least the size
\* of the flag word plus 4 bytes further on; no pass starts beyond the end
\* of the tag.
C29_EventLoopAdvancesOrStops ==
    \A i \in DOMAIN last.log :
        /\ last.log[i].at <= last.in.end
        /\ IF i = Len(last.log)
           THEN \/ last.log[i].thrown
                \/ last.log[i].stage
                       \in {"end", "bound", "longer", "skip_failed"}
           ELSE /\ Registered(last.log[i])
                /\ last.log[i + 1].at
                       >= last.log[i].at + FlagWordSize + 4

\* a table of three records took four passes, each of the first three
\* 9 bytes on, and ended at the zero flag word
C29_Witness ==
    /\ Len(last.log) = 4
    /\ \A i \in 1 .. 3 :
           /\ Registered(last.log[i])
           /\ last.log[i + 1].at = last.log[i].at + FlagWordSize + 4 + 1
    /\ last.log[4].stage = "end"
    /\ ~last.thrown

====
